---- MODULE Spec2Model ----
(***************************************************************************)
(* A model of the cqrs-account ledger: the Account aggregate with its      *)
(* deduplication window (src/src/account/aggregate.rs), the Order swap     *)
(* saga (src/src/order/aggregate.rs), the Transfer saga                    *)
(* (src/src/transfer/aggregate.rs) and the compensation guard              *)
(* (src/src/util/transaction_guard.rs).                                    *)
(*                                                                         *)
(* Every nested `account_service.execute` is one atomic command on the     *)
(* target account (the engine serialises commands per aggregate).  A saga  *)
(* handler is one action; the points at which the process may stop between *)
(* an outbound effect and the persisting of the saga's own event are an    *)
(* input of that action.  Futures spawned by a dropped guard are entries   *)
(* of `tasks` and run as an action of their own.                           *)
(***************************************************************************)
EXTENDS Integers, Sequences, FiniteSets, TLC

VARIABLES
    acct,       \* account id -> Account aggregate
    order,      \* the Order aggregate
    transfer,   \* the Transfer aggregate
    tasks,      \* futures handed to tokio::spawn and not yet run
    pt,         \* a stand-alone ProcessedTransactions window
    ptHist,     \* history: the inserts and removes made on pt
    ledger,     \* history: per account and asset, sums of applied event amounts
    effLog,     \* history: per account, the effecting events emitted so far
    last,       \* history: the last command executed and its outcome
    init,       \* history: the balances the behaviour started with
    track,      \* which account history is kept: "ledger" or "effects"
    guards,     \* the TransactionGuards of a scope, and what became of their futures
    lockLog,    \* history: per account, the locks open by the events applied
    callers,    \* the clients of the account engine and the command each has in flight
    view,       \* the AccountView of account A, as the projected events leave it
    viewLog     \* history: the ledger entries of all transaction events projected

vars == <<acct, order, transfer, tasks, pt, ptHist, ledger, effLog, last, init, track, guards, lockLog, callers, view, viewLog>>

(***************************************************************************)
(* Value sets and bounds                                                   *)
(***************************************************************************)
DEFAULT_TTL == 30 * 24 * 60 * 60

\* stand-in for u64::MAX: checked_add fails above it, checked_sub below 0
MaxU64 == 1000

\* the number of effecting events an account's clients are allowed to cause
MaxEffects == 3

\* cap on the sum of amounts a client moves into one asset of an account
MaxTotal == 4

Accounts == {"A", "B"}
Assets == {"BTC", "ETH"}
NoAccount == "-"

OrderId == "0xAA"
TransferId == "0xBB"
ClientTxids == {"0x01", "0x02"}
Txids == ClientTxids \cup {OrderId, TransferId}

EmptyMap == [x \in {} |-> 0]

MapPut(m, k, v) == [x \in (DOMAIN m) \cup {k} |-> IF x = k THEN v ELSE m[x]]
\* a removal that removes nothing
MapDelNothing(m, k) == m

MapDel(m, k) == [x \in (DOMAIN m) \ {k} |-> m[x]]
MapGet(m, k, d) == IF k \in DOMAIN m THEN m[k] ELSE d

\* F applied to the value of v, with v evaluated once
With(v, F(_)) == CHOOSE r \in {F(x) : x \in {v}} : TRUE

(***************************************************************************)
(* ProcessedTransactions: the dedup window                                 *)
(***************************************************************************)
NewProcessed(ttl) == [ttl |-> ttl, txids |-> EmptyMap, timeseries |-> <<>>]

\* a lookup that finds nothing
get_timestamp_none(p, txid) == -1

get_timestamp(p, txid) == MapGet(p.txids, txid, -1)

\* the `while let Some(..) = pop_front()` loop of insert
RECURSIVE PruneLoop(_, _)
PruneLoop(p, timestamp) ==
    IF p.timeseries = <<>> THEN p
    ELSE LET txts == Head(p.timeseries)[1]
             txid == Head(p.timeseries)[2]
         IN  IF txts + p.ttl < timestamp
             THEN PruneLoop([p EXCEPT !.txids = MapDel(@, txid),
                                      !.timeseries = Tail(@)], timestamp)
             ELSE [p EXCEPT !.timeseries = <<(<<timestamp, txid>>)>> \o Tail(@)]

\* insert: [ok, prior, p]
insert(p, txid, timestamp) ==
    IF txid \in DOMAIN p.txids
    THEN [ok |-> FALSE, prior |-> p.txids[txid], p |-> p]
    ELSE [ok |-> TRUE, prior |-> -1,
          p |-> PruneLoop([p EXCEPT !.txids = MapPut(@, txid, timestamp),
                                    !.timeseries = Append(@, <<timestamp, txid>>)],
                          timestamp)]

RECURSIVE Retain(_, _)
Retain(s, txid) ==
    IF s = <<>> THEN <<>>
    ELSE IF Head(s)[2] = txid THEN Retain(Tail(s), txid)
         ELSE <<Head(s)>> \o Retain(Tail(s), txid)

\* a remove that forgets the queue entry and keeps the txid in the mapping
remove_queue_only(p, txid) ==
    [found |-> txid \in DOMAIN p.txids, p |-> [p EXCEPT !.timeseries = Retain(@, txid)]]

\* remove: [found, p]
remove(p, txid) ==
    IF txid \in DOMAIN p.txids
    THEN [found |-> TRUE,
          p |-> [p EXCEPT !.txids = MapDel(@, txid),
                          !.timeseries = Retain(@, txid)]]
    ELSE [found |-> FALSE, p |-> p]

(***************************************************************************)
(* Account aggregate                                                       *)
(***************************************************************************)
Uninitialized == [tag |-> "Uninitialized", account_id |-> "", assets |-> EmptyMap,
                  reserving |-> EmptyMap, processed_transactions |-> NewProcessed(0)]

Closed == [Uninitialized EXCEPT !.tag = "Closed"]

\* the aggregate after a panic in apply (expect / unreachable!): it cannot be used again
Panicked == [Uninitialized EXCEPT !.tag = "Panicked"]

\* an emptiness test that looks at the locks only
is_empty_of_locks(state) == DOMAIN state.reserving = {}

is_empty(state) == DOMAIN state.assets = {} /\ DOMAIN state.reserving = {}

LifecycleCmd(kind, account_id) ==
    [kind |-> kind, account_id |-> account_id, txid |-> "", timestamp |-> 0, asset |-> "",
     amount |-> 0, other |-> "", receive_asset |-> "", receive_amount |-> 0]

TxCmd(kind, txid, timestamp, other, asset, amount) ==
    [kind |-> kind, account_id |-> "", txid |-> txid, timestamp |-> timestamp, asset |-> asset,
     amount |-> amount, other |-> other, receive_asset |-> "", receive_amount |-> 0]

lock_funds(txid, timestamp, asset, amount) == TxCmd("LockFunds", txid, timestamp, "", asset, amount)

\* the constructors below take no timestamp: the command carries 0
unlock_funds(txid) == TxCmd("UnlockFunds", txid, 0, "", "", 0)

settle(txid, to_account, receive_asset, receive_amount) ==
    [TxCmd("Settle", txid, 0, to_account, "", 0) EXCEPT
        !.receive_asset = receive_asset, !.receive_amount = receive_amount]

Event(type, c, asset, amount) ==
    [type |-> type, account_id |-> c.account_id, txid |-> c.txid, timestamp |-> c.timestamp,
     asset |-> asset, amount |-> amount, other |-> c.other,
     receive_asset |-> c.receive_asset, receive_amount |-> c.receive_amount]

Ok(events) == [ok |-> TRUE, err |-> "", prior |-> -1, events |-> events]
Err(e) == [ok |-> FALSE, err |-> e, prior |-> -1, events |-> <<>>]
\* a DuplicateTransaction that carries no timestamp of its own
DuplicateTransactionUnstamped(ts) ==
    [ok |-> FALSE, err |-> "DuplicateTransaction", prior |-> 0, events |-> <<>>]

DuplicateTransaction(ts) == [ok |-> FALSE, err |-> "DuplicateTransaction", prior |-> ts, events |-> <<>>]

LifecycleKinds == {"Open", "Disable", "Enable", "Close"}
DedupKinds == {"Deposit", "Withdraw", "Debit", "Credit", "Settle"}
FundsKinds == {"Withdraw", "Debit", "LockFunds"}

\* a balance that covers every amount
BalanceOfPlenty(state, asset) == MaxU64

Balance(state, asset) == MapGet(state.assets, asset, 0)

\* a handler that looks at the balance before it looks for the txid or the lock id
HandleFundsFirst(state, c) ==
    LET seen == get_timestamp(state.processed_transactions, c.txid) # -1
        prior == get_timestamp(state.processed_transactions, c.txid)
        locked == c.txid \in DOMAIN state.reserving
    IN  CASE c.kind = "Deposit" ->
                IF seen THEN DuplicateTransaction(prior)
                ELSE Ok(<<Event("Deposited", c, c.asset, c.amount)>>)
          [] c.kind = "Withdraw" ->
                IF Balance(state, c.asset) < c.amount THEN Err("InsufficientFunds")
                ELSE IF seen THEN DuplicateTransaction(prior)
                ELSE Ok(<<Event("Withdrew", c, c.asset, c.amount)>>)
          [] c.kind = "Credit" ->
                IF seen THEN DuplicateTransaction(prior)
                ELSE Ok(<<Event("Credited", c, c.asset, c.amount)>>)
          [] c.kind = "ReverseCredit" ->
                IF seen THEN Ok(<<Event("CreditReversed", c, c.asset, c.amount)>>)
                ELSE Err("TransactionNotFound")
          [] c.kind = "ReverseDebit" ->
                IF seen THEN Ok(<<Event("DebitReversed", c, c.asset, c.amount)>>)
                ELSE Err("TransactionNotFound")
          [] c.kind = "Debit" ->
                IF Balance(state, c.asset) < c.amount THEN Err("InsufficientFunds")
                ELSE IF seen THEN DuplicateTransaction(prior)
                ELSE Ok(<<Event("Debited", c, c.asset, c.amount)>>)
          [] c.kind = "LockFunds" ->
                IF Balance(state, c.asset) < c.amount THEN Err("InsufficientFunds")
                ELSE IF locked THEN Err("DuplicateLock")
                ELSE Ok(<<Event("FundsLocked", c, c.asset, c.amount)>>)
          [] c.kind = "UnlockFunds" ->
                IF locked
                THEN Ok(<<Event("FundsUnlocked", c, state.reserving[c.txid].asset,
                                state.reserving[c.txid].amount)>>)
                ELSE Err("LockNotFound")
          [] c.kind = "Settle" ->
                IF seen THEN DuplicateTransaction(prior)
                ELSE IF ~locked THEN Err("LockNotFound")
                ELSE Ok(<<Event("Settled", c, state.reserving[c.txid].asset,
                                state.reserving[c.txid].amount)>>)

\* Account::handle, the transaction commands on an in-service account
HandleTransaction(state, c) ==
    LET seen == get_timestamp(state.processed_transactions, c.txid) # -1
        prior == get_timestamp(state.processed_transactions, c.txid)
        locked == c.txid \in DOMAIN state.reserving
    IN  CASE c.kind = "Deposit" ->
                IF seen THEN DuplicateTransaction(prior)
                ELSE Ok(<<Event("Deposited", c, c.asset, c.amount)>>)
          [] c.kind = "Withdraw" ->
                IF seen THEN DuplicateTransaction(prior)
                ELSE IF Balance(state, c.asset) < c.amount THEN Err("InsufficientFunds")
                ELSE Ok(<<Event("Withdrew", c, c.asset, c.amount)>>)
          [] c.kind = "Credit" ->
                IF seen THEN DuplicateTransaction(prior)
                ELSE Ok(<<Event("Credited", c, c.asset, c.amount)>>)
          [] c.kind = "ReverseCredit" ->
                IF seen THEN Ok(<<Event("CreditReversed", c, c.asset, c.amount)>>)
                ELSE Err("TransactionNotFound")
          [] c.kind = "ReverseDebit" ->
                IF seen THEN Ok(<<Event("DebitReversed", c, c.asset, c.amount)>>)
                ELSE Err("TransactionNotFound")
          [] c.kind = "Debit" ->
                IF seen THEN DuplicateTransaction(prior)
                ELSE IF Balance(state, c.asset) < c.amount THEN Err("InsufficientFunds")
                ELSE Ok(<<Event("Debited", c, c.asset, c.amount)>>)
          [] c.kind = "LockFunds" ->
                IF locked THEN Err("DuplicateLock")
                ELSE IF Balance(state, c.asset) < c.amount THEN Err("InsufficientFunds")
                ELSE Ok(<<Event("FundsLocked", c, c.asset, c.amount)>>)
          [] c.kind = "UnlockFunds" ->
                IF locked
                THEN Ok(<<Event("FundsUnlocked", c, state.reserving[c.txid].asset,
                                state.reserving[c.txid].amount)>>)
                ELSE Err("LockNotFound")
          [] c.kind = "Settle" ->
                IF seen THEN DuplicateTransaction(prior)
                ELSE IF ~locked THEN Err("LockNotFound")
                ELSE Ok(<<Event("Settled", c, state.reserving[c.txid].asset,
                                state.reserving[c.txid].amount)>>)

\* a handler that opens an account whatever its state
HandleReopening(a, c) ==
    CASE c.kind = "Open" -> Ok(<<Event("AccountOpened", c, "", 0)>>)
      [] c.kind = "Disable" ->
            IF a.tag = "InService" THEN Ok(<<Event("AccountDisabled", c, "", 0)>>)
            ELSE Err("AccountNotInService")
      [] c.kind = "Enable" ->
            IF a.tag = "Disabled" THEN Ok(<<Event("AccountEnabled", c, "", 0)>>)
            ELSE Err("AccountNotDisabled")
      [] c.kind = "Close" ->
            IF a.tag \in {"Uninitialized", "Closed"} THEN Err("AccountNotFound")
            ELSE IF is_empty(a) THEN Ok(<<Event("AccountClosed", c, "", 0)>>)
            ELSE Err("AccountNotEmpty")
      [] OTHER ->
            IF a.tag \in {"Uninitialized", "Closed"} THEN Err("AccountNotFound")
            ELSE IF a.tag = "Disabled" THEN Err("AccountNotInService")
            ELSE HandleTransaction(a, c)

\* a handler that serves the transactions of a disabled account
HandleDisabledToo(a, c) ==
    CASE c.kind = "Open" ->
            IF a.tag \in {"Uninitialized", "Closed"}
            THEN Ok(<<Event("AccountOpened", c, "", 0)>>)
            ELSE Err("AccountAlreadyExists")
      [] c.kind = "Disable" ->
            IF a.tag = "InService" THEN Ok(<<Event("AccountDisabled", c, "", 0)>>)
            ELSE Err("AccountNotInService")
      [] c.kind = "Enable" ->
            IF a.tag = "Disabled" THEN Ok(<<Event("AccountEnabled", c, "", 0)>>)
            ELSE Err("AccountNotDisabled")
      [] c.kind = "Close" ->
            IF a.tag \in {"Uninitialized", "Closed"} THEN Err("AccountNotFound")
            ELSE IF is_empty(a) THEN Ok(<<Event("AccountClosed", c, "", 0)>>)
            ELSE Err("AccountNotEmpty")
      [] OTHER ->
            IF a.tag \in {"Uninitialized", "Closed"} THEN Err("AccountNotFound")
            ELSE HandleTransaction(a, c)

\* Account::handle
Handle(a, c) ==
    CASE c.kind = "Open" ->
            IF a.tag \in {"Uninitialized", "Closed"}
            THEN Ok(<<Event("AccountOpened", c, "", 0)>>)
            ELSE Err("AccountAlreadyExists")
      [] c.kind = "Disable" ->
            IF a.tag = "InService" THEN Ok(<<Event("AccountDisabled", c, "", 0)>>)
            ELSE Err("AccountNotInService")
      [] c.kind = "Enable" ->
            IF a.tag = "Disabled" THEN Ok(<<Event("AccountEnabled", c, "", 0)>>)
            ELSE Err("AccountNotDisabled")
      [] c.kind = "Close" ->
            IF a.tag \in {"Uninitialized", "Closed"} THEN Err("AccountNotFound")
            ELSE IF is_empty(a) THEN Ok(<<Event("AccountClosed", c, "", 0)>>)
            ELSE Err("AccountNotEmpty")
      [] OTHER ->
            IF a.tag \in {"Uninitialized", "Closed"} THEN Err("AccountNotFound")
            ELSE IF a.tag = "Disabled" THEN Err("AccountNotInService")
            ELSE HandleTransaction(a, c)

checked_add(x, y) == IF x + y > MaxU64 THEN -1 ELSE x + y
checked_sub(x, y) == IF x < y THEN -1 ELSE x - y

\* `state.assets.entry(asset).or_insert(0)` followed by a checked update
SetBalance(state, asset, v) ==
    IF v < 0 THEN Panicked ELSE [state EXCEPT !.assets = MapPut(@, asset, v)]

\* BankAccountState::save_txid
save_txid(state, txid, timestamp) ==
    LET r == insert(state.processed_transactions, txid, timestamp)
    IN  IF r.ok THEN [state EXCEPT !.processed_transactions = r.p] ELSE Panicked

\* a remove_txid that leaves the txid in the window
remove_txid_keeping(state, txid) == state

\* BankAccountState::remove_txid
remove_txid(state, txid) ==
    LET r == remove(state.processed_transactions, txid)
    IN  IF r.found THEN [state EXCEPT !.processed_transactions = r.p] ELSE Panicked

AddBalance(state, asset, amount) ==
    IF state.tag = "Panicked" THEN Panicked
    ELSE SetBalance(state, asset, checked_add(Balance(state, asset), amount))

SubBalance(state, asset, amount) ==
    IF state.tag = "Panicked" THEN Panicked
    ELSE SetBalance(state, asset, checked_sub(Balance(state, asset), amount))

\* a Settled arm that takes the sent amount from the balance a second time
ApplySettledDeducting(state, e) ==
    LET s == save_txid(state, e.txid, e.timestamp)
    IN  IF s.tag = "Panicked" \/ e.txid \notin DOMAIN s.reserving THEN Panicked
        ELSE SubBalance([s EXCEPT !.reserving = MapDel(@, e.txid)],
                        s.reserving[e.txid].asset, s.reserving[e.txid].amount)

\* a Settled arm that records the txid and leaves the lock where it is
ApplySettledKeepingLock(state, e) ==
    LET s == save_txid(state, e.txid, e.timestamp)
    IN  IF s.tag = "Panicked" \/ e.txid \notin DOMAIN s.reserving THEN Panicked
        ELSE s

\* the Settled arm of Account::apply
ApplySettled(state, e) ==
    LET s == save_txid(state, e.txid, e.timestamp)
    IN  IF s.tag = "Panicked" \/ e.txid \notin DOMAIN s.reserving THEN Panicked
        ELSE [s EXCEPT !.reserving = MapDel(@, e.txid)]

\* an apply that leaves the default state in a disabled account
ApplyDisablingDefault(a, e) ==
    CASE e.type = "AccountOpened" ->
            [tag |-> "InService", account_id |-> e.account_id, assets |-> EmptyMap,
             reserving |-> EmptyMap, processed_transactions |-> NewProcessed(DEFAULT_TTL)]
      [] e.type = "AccountDisabled" ->
            IF a.tag = "InService"
            THEN [tag |-> "Disabled", account_id |-> "", assets |-> EmptyMap,
                  reserving |-> EmptyMap, processed_transactions |-> NewProcessed(0)]
            ELSE Panicked
      [] e.type = "AccountEnabled" ->
            IF a.tag = "Disabled" THEN [a EXCEPT !.tag = "InService"] ELSE Panicked
      [] e.type = "AccountClosed" -> Closed
      [] OTHER ->
            IF a.tag # "InService" THEN Panicked
            ELSE CASE e.type = "Deposited" ->
                        AddBalance(save_txid(a, e.txid, e.timestamp), e.asset, e.amount)
                   [] e.type = "Withdrew" ->
                        SubBalance(save_txid(a, e.txid, e.timestamp), e.asset, e.amount)
                   [] e.type = "Debited" ->
                        SubBalance(save_txid(a, e.txid, e.timestamp), e.asset, e.amount)
                   [] e.type = "DebitReversed" ->
                        AddBalance(remove_txid(a, e.txid), e.asset, e.amount)
                   [] e.type = "Credited" ->
                        AddBalance(save_txid(a, e.txid, e.timestamp), e.asset, e.amount)
                   [] e.type = "CreditReversed" ->
                        SubBalance(remove_txid(a, e.txid), e.asset, e.amount)
                   [] e.type = "FundsLocked" ->
                        LET s == SubBalance(a, e.asset, e.amount)
                        IN  IF s.tag = "Panicked" THEN Panicked
                            ELSE [s EXCEPT !.reserving =
                                     MapPut(@, e.txid, [asset |-> e.asset, amount |-> e.amount])]
                   [] e.type = "FundsUnlocked" ->
                        IF e.txid \notin DOMAIN a.reserving THEN Panicked
                        ELSE AddBalance([a EXCEPT !.reserving = MapDel(@, e.txid)],
                                        a.reserving[e.txid].asset, a.reserving[e.txid].amount)
                   [] e.type = "Settled" -> ApplySettled(a, e)

\* Account::apply
Apply(a, e) ==
    CASE e.type = "AccountOpened" ->
            [tag |-> "InService", account_id |-> e.account_id, assets |-> EmptyMap,
             reserving |-> EmptyMap, processed_transactions |-> NewProcessed(DEFAULT_TTL)]
      [] e.type = "AccountDisabled" ->
            IF a.tag = "InService" THEN [a EXCEPT !.tag = "Disabled"] ELSE Panicked
      [] e.type = "AccountEnabled" ->
            IF a.tag = "Disabled" THEN [a EXCEPT !.tag = "InService"] ELSE Panicked
      [] e.type = "AccountClosed" -> Closed
      [] OTHER ->
            IF a.tag # "InService" THEN Panicked
            ELSE CASE e.type = "Deposited" ->
                        AddBalance(save_txid(a, e.txid, e.timestamp), e.asset, e.amount)
                   [] e.type = "Withdrew" ->
                        SubBalance(save_txid(a, e.txid, e.timestamp), e.asset, e.amount)
                   [] e.type = "Debited" ->
                        SubBalance(save_txid(a, e.txid, e.timestamp), e.asset, e.amount)
                   [] e.type = "DebitReversed" ->
                        AddBalance(remove_txid(a, e.txid), e.asset, e.amount)
                   [] e.type = "Credited" ->
                        AddBalance(save_txid(a, e.txid, e.timestamp), e.asset, e.amount)
                   [] e.type = "CreditReversed" ->
                        SubBalance(remove_txid(a, e.txid), e.asset, e.amount)
                   [] e.type = "FundsLocked" ->
                        LET s == SubBalance(a, e.asset, e.amount)
                        IN  IF s.tag = "Panicked" THEN Panicked
                            ELSE [s EXCEPT !.reserving =
                                     MapPut(@, e.txid, [asset |-> e.asset, amount |-> e.amount])]
                   [] e.type = "FundsUnlocked" ->
                        IF e.txid \notin DOMAIN a.reserving THEN Panicked
                        ELSE AddBalance([a EXCEPT !.reserving = MapDel(@, e.txid)],
                                        a.reserving[e.txid].asset, a.reserving[e.txid].amount)
                   [] e.type = "Settled" -> ApplySettled(a, e)

RECURSIVE ApplyAll(_, _)
ApplyAll(a, events) ==
    IF events = <<>> THEN a ELSE ApplyAll(Apply(a, Head(events)), Tail(events))

\* CqrsFramework::execute on the account engine: load, handle, commit (apply).
\* A panicked aggregate cannot be loaded; the caller sees an infrastructure failure.
Execute(a, c) ==
    With(a, LAMBDA s :
        IF s.tag = "Panicked" THEN [res |-> Err("Infrastructure"), a |-> s]
        ELSE With(Handle(s, c), LAMBDA r :
                [res |-> r, a |-> IF r.ok THEN ApplyAll(s, r.events) ELSE s]))

(***************************************************************************)
(* History of the events applied to the accounts                           *)
(***************************************************************************)
PlusTypes == {"Deposited", "DebitReversed", "Credited", "FundsUnlocked"}
MinusTypes == {"Withdrew", "Debited", "CreditReversed", "FundsLocked"}
EffectingTypes == {"Deposited", "Withdrew", "Debited", "Credited", "FundsLocked", "Settled"}
WindowTypes == {"Deposited", "Withdrew", "Debited", "Credited", "Settled"}

ZeroLedger == [a \in Accounts |-> [s \in Assets |-> [plus |-> 0, minus |-> 0, sent |-> 0]]]

RECURSIVE Booked(_, _, _)
Booked(l, a, events) ==
    IF events = <<>> THEN l
    ELSE LET e == Head(events)
             l2 == IF e.type \in PlusTypes
                   THEN [l EXCEPT ![a][e.asset].plus = @ + e.amount]
                   ELSE IF e.type \in MinusTypes
                   THEN [l EXCEPT ![a][e.asset].minus = @ + e.amount]
                   ELSE IF e.type = "Settled"
                   THEN [l EXCEPT ![a][e.asset].sent = @ + e.amount]
                   ELSE IF e.type = "AccountOpened"
                   THEN [l EXCEPT ![a] = ZeroLedger[a]]
                   ELSE l
         IN  Booked(l2, a, Tail(events))

\* per txid: the timestamps of the effecting events that carried it, their number,
\* and whether two of them lay within one TTL of each other
\* (n counts the events the dedup window records, locks the FundsLocked events)
NoEffects == [x \in Txids |-> [times |-> {}, n |-> 0, locks |-> 0, repeated |-> FALSE]]

Near(t, u) == t - u <= DEFAULT_TTL /\ u - t <= DEFAULT_TTL

RECURSIVE Logged(_, _)
Logged(h, events) ==
    IF events = <<>> THEN h
    ELSE LET e == Head(events)
             h2 == IF e.type \in EffectingTypes
                   THEN [h EXCEPT ![e.txid] =
                            [times |-> @.times \cup {e.timestamp},
                             n |-> @.n + (IF e.type \in WindowTypes THEN 1 ELSE 0),
                             locks |-> @.locks + (IF e.type = "FundsLocked" THEN 1 ELSE 0),
                             repeated |-> @.repeated \/ \E t \in @.times : Near(t, e.timestamp)]]
                   ELSE h
         IN  Logged(h2, Tail(events))

\* per account: lock id -> (asset, amount) of the FundsLocked events applied and not
\* followed by a FundsUnlocked or Settled with the same id
NoLocks == [a \in Accounts |-> EmptyMap]

RECURSIVE OpenLocks(_, _)
OpenLocks(h, events) ==
    IF events = <<>> THEN h
    ELSE LET e == Head(events)
             h2 == IF e.type = "FundsLocked"
                   THEN [y \in DOMAIN h \cup {e.txid} |->
                            IF y = e.txid THEN [asset |-> e.asset, amount |-> e.amount] ELSE h[y]]
                   ELSE IF e.type \in {"FundsUnlocked", "Settled"}
                   THEN [y \in DOMAIN h \ {e.txid} |-> h[y]]
                   ELSE h
         IN  OpenLocks(h2, Tail(events))

RECURSIVE SumOver(_, _)
SumOver(f, S) == IF S = {} THEN 0
                 ELSE LET x == CHOOSE y \in S : TRUE IN f[x].n + f[x].locks + SumOver(f, S \ {x})

(***************************************************************************)
(* The dedup window on its own                                             *)
(***************************************************************************)
\* the number of operations made on the stand-alone window
MaxWindowOps == 4

WindowTxids == {"0x10", "0x11", "0x12"}
WindowTTLs == {3600, DEFAULT_TTL}
WindowTimes(ttl) == {0, 1, ttl + 1, 2 * ttl, 2 * ttl + 1}

NoConfig == [order_id |-> "", seller |-> "", sell_asset |-> "", sell_amount |-> 0,
             buy_asset |-> "", buy_amount |-> 0, timestamp |-> 0]
NoOrder == [tag |-> "Uninitialized", config |-> NoConfig, buyer |-> "", timestamp |-> 0,
            reason |-> ""]
\* Config::default() of the transfer (its description is left out: nothing reads it)
NoTransferConfig == [transfer_id |-> "", from_account |-> "", to_account |-> "", asset |-> "",
                     amount |-> 0, timestamp |-> 0]
NoTransfer == [tag |-> "Uninitialized", config |-> NoTransferConfig, timestamp |-> 0]
NoLast == [agg |-> "", cmd |-> "", fault |-> "none", res |-> "", ae |-> "", event |-> "",
           landed |-> FALSE]

(***************************************************************************)
(* AccountView: the read-side projection of the account events             *)
(***************************************************************************)
RECENT_LEDGER_SIZE == 100

\* AccountView::default(); account_id None is ""
DefaultView ==
    [account_id |-> "", is_disabled |-> FALSE, balance |-> EmptyMap,
     locked_balance |-> EmptyMap, recent_ledger |-> <<>>, panicked |-> FALSE]

NoEntries == <<>>

\* the view after a panic in update
ViewPanicked(v) == [v EXCEPT !.panicked = TRUE]

\* LedgerEntry { timestamp, txid: txid.hex(), detail }
LedgerEntry(e, detail) ==
    [timestamp |-> e.timestamp, txid |-> e.txid, detail |-> detail,
     account |-> IF detail \in {"Deposit", "Withdraw", "Lock", "Unlock"} THEN "" ELSE e.other,
     asset |-> e.asset, amount |-> e.amount,
     receive_asset |-> IF detail = "Settlement" THEN e.receive_asset ELSE "",
     receive_amount |-> IF detail = "Settlement" THEN e.receive_amount ELSE 0]

\* an add_ledger that drops the newest entry when the ledger is full
add_ledger_keeping_oldest(v, entry) ==
    IF Len(v.recent_ledger) >= RECENT_LEDGER_SIZE THEN v
    ELSE [v EXCEPT !.recent_ledger = <<entry>> \o @]

\* AccountView::add_ledger: push_front, then pop_back when longer than the bound
add_ledger(v, entry) ==
    LET pushed == <<entry>> \o v.recent_ledger
    IN  [v EXCEPT !.recent_ledger = IF Len(pushed) > RECENT_LEDGER_SIZE
                                    THEN SubSeq(pushed, 1, Len(pushed) - 1)
                                    ELSE pushed]

\* `.entry(k).and_modify(|e| *e += n).or_insert(n)`
EntryAdd(m, k, n) == IF k \in DOMAIN m THEN MapPut(m, k, m[k] + n) ELSE MapPut(m, k, n)

\* `.entry(k).and_modify(|e| *e -= n).or_insert(0)`
EntrySubOrZero(m, k, n) == IF k \in DOMAIN m THEN MapPut(m, k, m[k] - n) ELSE MapPut(m, k, 0)

\* a u64 of the view left its range: the update panics (overflow checks on)
InRange(v) ==
    /\ \A k \in DOMAIN v.balance : v.balance[k] >= 0 /\ v.balance[k] <= MaxU64
    /\ \A k \in DOMAIN v.locked_balance :
           v.locked_balance[k] >= 0 /\ v.locked_balance[k] <= MaxU64

\* a Settled arm that stores the difference in the locked balance
ViewSettledSubtracting(v, e) ==
    IF e.asset \notin DOMAIN v.locked_balance THEN ViewPanicked(v)
    ELSE IF v.locked_balance[e.asset] < e.amount THEN ViewPanicked(v)
    ELSE add_ledger([v EXCEPT !.locked_balance = MapPut(@, e.asset, @[e.asset] - e.amount),
                              !.balance = EntryAdd(@, e.receive_asset, e.receive_amount)],
                    LedgerEntry(e, "Settlement"))

\* the Settled arm of AccountView::update: checked_sub is computed for its panic
\* only, its result is dropped and the locked balance keeps its value
ViewSettled(v, e) ==
    IF e.asset \notin DOMAIN v.locked_balance THEN ViewPanicked(v)
    ELSE IF v.locked_balance[e.asset] < e.amount THEN ViewPanicked(v)
    ELSE add_ledger([v EXCEPT !.balance = EntryAdd(@, e.receive_asset, e.receive_amount)],
                    LedgerEntry(e, "Settlement"))

\* the arms of AccountView::update for the transaction events
ViewTransaction(v, e) ==
    CASE e.type = "Deposited" ->
            add_ledger([v EXCEPT !.balance = EntryAdd(@, e.asset, e.amount)],
                       LedgerEntry(e, "Deposit"))
      [] e.type = "Withdrew" ->
            add_ledger([v EXCEPT !.balance = EntrySubOrZero(@, e.asset, e.amount)],
                       LedgerEntry(e, "Withdraw"))
      [] e.type = "Debited" ->
            add_ledger([v EXCEPT !.balance = EntrySubOrZero(@, e.asset, e.amount)],
                       LedgerEntry(e, "Debited"))
      [] e.type = "DebitReversed" ->
            add_ledger([v EXCEPT !.balance = EntryAdd(@, e.asset, e.amount)],
                       LedgerEntry(e, "DebitReversed"))
      [] e.type = "Credited" ->
            add_ledger([v EXCEPT !.balance = EntryAdd(@, e.asset, e.amount)],
                       LedgerEntry(e, "Credited"))
      [] e.type = "CreditReversed" ->
            add_ledger([v EXCEPT !.balance = EntrySubOrZero(@, e.asset, e.amount)],
                       LedgerEntry(e, "CreditReversed"))
      [] e.type = "FundsLocked" ->
            IF e.asset \notin DOMAIN v.balance THEN ViewPanicked(v)
            ELSE add_ledger([v EXCEPT !.balance = MapPut(@, e.asset, @[e.asset] - e.amount),
                                      !.locked_balance = EntryAdd(@, e.asset, e.amount)],
                            LedgerEntry(e, "Lock"))
      [] e.type = "FundsUnlocked" ->
            IF e.asset \notin DOMAIN v.locked_balance THEN ViewPanicked(v)
            ELSE add_ledger([v EXCEPT !.balance = EntryAdd(@, e.asset, e.amount),
                                      !.locked_balance = MapPut(@, e.asset, @[e.asset] - e.amount)],
                            LedgerEntry(e, "Unlock"))
      [] e.type = "Settled" -> ViewSettled(v, e)

LifecycleTypes == {"AccountOpened", "AccountClosed", "AccountDisabled", "AccountEnabled"}

\* AccountView::update
ViewUpdate(v, e) ==
    IF v.panicked THEN v
    ELSE CASE e.type = "AccountOpened" -> [v EXCEPT !.account_id = e.account_id]
           [] e.type = "AccountClosed" -> DefaultView
           [] e.type = "AccountDisabled" -> [v EXCEPT !.is_disabled = TRUE]
           [] e.type = "AccountEnabled" -> [v EXCEPT !.is_disabled = FALSE]
           [] OTHER -> With(ViewTransaction(v, e), LAMBDA w :
                            IF InRange(w) THEN w ELSE ViewPanicked(v))

RECURSIVE ViewUpdateAll(_, _)
ViewUpdateAll(v, events) ==
    IF events = <<>> THEN v ELSE ViewUpdateAll(ViewUpdate(v, Head(events)), Tail(events))

\* the detail of the ledger entry a transaction event yields
DetailOf(type) ==
    CASE type = "Deposited" -> "Deposit"
      [] type = "Withdrew" -> "Withdraw"
      [] type = "FundsLocked" -> "Lock"
      [] type = "FundsUnlocked" -> "Unlock"
      [] type = "Settled" -> "Settlement"
      [] OTHER -> type

\* the entries of the transaction events among `events`, in their order
RECURSIVE EntriesOf(_)
EntriesOf(events) ==
    IF events = <<>> THEN <<>>
    ELSE (IF Head(events).type \in LifecycleTypes THEN <<>>
          ELSE <<LedgerEntry(Head(events), DetailOf(Head(events).type))>>)
         \o EntriesOf(Tail(events))

\* two clients of one account, and what the engine answered each
Callers == {"c1", "c2"}
NoCallers ==
    [k \in Callers |-> [pc |-> "idle", c |-> LifecycleCmd("", NoAccount), ok |-> FALSE,
                        err |-> "", events |-> <<>>, saw |-> Uninitialized,
                        left |-> Uninitialized, at |-> 0]]

\* the guards a scope may create
MaxGuards == 3
GuardIds == 1..MaxGuards
NoGuards ==
    [i \in GuardIds |-> [scope |-> "unborn", guard |-> [redo |-> <<>>], committed |-> FALSE,
                         ran |-> 0]]

Idle ==
    /\ acct = [a \in Accounts |-> Uninitialized]
    /\ order = NoOrder
    /\ transfer = NoTransfer
    /\ tasks = <<>>
    /\ viewLog = NoEntries
    /\ view = DefaultView
    /\ callers = NoCallers
    /\ lockLog = NoLocks
    /\ guards = NoGuards
    /\ ledger = ZeroLedger
    /\ effLog = [a \in Accounts |-> NoEffects]
    /\ last = NoLast
    /\ init = [a \in Accounts |-> EmptyMap]

InitWindow ==
    /\ Idle
    /\ \E ttl \in WindowTTLs : pt = NewProcessed(ttl)
    /\ ptHist = <<>>
    /\ track = "ledger"

WindowInsert(txid, timestamp) ==
    /\ Len(ptHist) < MaxWindowOps
    /\ pt' = insert(pt, txid, timestamp).p
    /\ ptHist' = Append(ptHist, [op |-> "insert", txid |-> txid, timestamp |-> timestamp,
                                 ok |-> insert(pt, txid, timestamp).ok])
    /\ UNCHANGED <<acct, order, transfer, tasks, ledger, effLog, last, init, track, guards, lockLog, callers, view, viewLog>>

WindowRemove(txid) ==
    /\ Len(ptHist) < MaxWindowOps
    /\ pt' = remove(pt, txid).p
    /\ ptHist' = Append(ptHist, [op |-> "remove", txid |-> txid, timestamp |-> 0,
                                 ok |-> remove(pt, txid).found])
    /\ UNCHANGED <<acct, order, transfer, tasks, ledger, effLog, last, init, track, guards, lockLog, callers, view, viewLog>>

NextWindow ==
    \/ \E txid \in WindowTxids, timestamp \in WindowTimes(pt.ttl) : WindowInsert(txid, timestamp)
    \/ \E txid \in WindowTxids : WindowRemove(txid)

SpecWindow == InitWindow /\ [][NextWindow]_vars

Inserted == {i \in 1..Len(ptHist) : ptHist[i].op = "insert" /\ ptHist[i].ok}

\* the largest timestamp ever inserted (-1 before the first insert)
MaxSeenTs == IF Inserted = {} THEN -1
             ELSE CHOOSE t \in {ptHist[i].timestamp : i \in Inserted} :
                     \A i \in Inserted : ptHist[i].timestamp <= t

\* the inserts so far came with timestamps that never decreased
Monotone == \A i, j \in Inserted : i < j => ptHist[i].timestamp <= ptHist[j].timestamp

\* C8: the window holds no txid whose first-seen timestamp ts has ts + TTL < the
\* largest timestamp ever inserted.  Stated for the histories whose timestamps
\* never decrease, which the claim's "arbitrary timestamps" include.
C8_NoExpiredEntry ==
    Monotone => \A x \in DOMAIN pt.txids : ~(pt.txids[x] + pt.ttl < MaxSeenTs)

(***************************************************************************)
(* Clients of the account engine                                           *)
(***************************************************************************)
ClientAccounts == {"A"}
ClientTimes == {0, DEFAULT_TTL + 1}
ClientAmounts == {1, 2}
TransactionKinds == {"Deposit", "Withdraw", "Debit", "Credit", "ReverseDebit",
                     "ReverseCredit", "LockFunds", "UnlockFunds", "Settle"}

ClientAssets == {"BTC"}

ClientCommands ==
    {TxCmd(k, x, t, NoAccount, s, m) :
        k \in TransactionKinds, x \in ClientTxids, t \in ClientTimes,
        s \in ClientAssets, m \in ClientAmounts}

WithinCaps(l, log) ==
    /\ \A a \in Accounts : SumOver(log[a], Txids) <= MaxEffects
    /\ \A a \in Accounts, s \in Assets : l[a][s].plus <= MaxTotal /\ l[a][s].minus <= MaxTotal

\* one command of a client, through CqrsFramework::execute
Submit(a, c) ==
    LET x == Execute(acct[a], c)
    IN  /\ acct' = [acct EXCEPT ![a] = x.a]
        /\ ledger' = IF track = "ledger" /\ x.a.tag # "Panicked"
                     THEN Booked(ledger, a, x.res.events) ELSE ledger
        /\ effLog' = IF track = "effects"
                     THEN [effLog EXCEPT ![a] = Logged(@, x.res.events)] ELSE effLog
        /\ lockLog' = [lockLog EXCEPT ![a] = OpenLocks(@, x.res.events)]
        /\ WithinCaps(ledger', effLog')

ClientLifecycle(a, kind) ==
    /\ Submit(a, LifecycleCmd(kind, a))
    /\ UNCHANGED <<order, transfer, tasks, pt, ptHist, last, init, track, guards, callers, view, viewLog>>

ClientTransaction(a, c) ==
    /\ Submit(a, c)
    /\ UNCHANGED <<order, transfer, tasks, pt, ptHist, last, init, track, guards, callers, view, viewLog>>

InitAccount ==
    /\ Idle
    /\ pt = NewProcessed(DEFAULT_TTL)
    /\ ptHist = <<>>
    /\ track \in {"ledger", "effects"}

NextAccount ==
    \/ \E a \in ClientAccounts, kind \in LifecycleKinds : ClientLifecycle(a, kind)
    \/ \E a \in ClientAccounts, c \in ClientCommands : ClientTransaction(a, c)

SpecAccount == InitAccount /\ [][NextAccount]_vars

Window(a) == DOMAIN acct[a].processed_transactions.txids

C2_BalanceLessSettleSends ==
    track = "ledger" =>
        \A a \in Accounts, s \in Assets :
            acct[a].tag = "InService" =>
                /\ Balance(acct[a], s) = ledger[a][s].plus - ledger[a][s].minus - ledger[a][s].sent
                /\ Balance(acct[a], s) >= 0

\* C2 as amended: the same sum without the Settled send-amounts (the FundsLocked
\* event took them from the balance already), never negative.
C2_BalanceIsSignedSum ==
    track = "ledger" =>
        \A a \in Accounts, s \in Assets :
            acct[a].tag = "InService" =>
                /\ Balance(acct[a], s) = ledger[a][s].plus - ledger[a][s].minus
                /\ Balance(acct[a], s) >= 0

\* a lock has been settled on an account that still holds funds
C2_Witness ==
    \E a \in Accounts, s \in Assets :
        /\ acct[a].tag = "InService"
        /\ ledger[a][s].sent > 0
        /\ Balance(acct[a], s) > 0

(***************************************************************************)
(* Order aggregate: the swap saga                                          *)
(***************************************************************************)
\* where a handler run can be cut short: the k-th nested execute returns an
\* infrastructure error (nothing lands), or the process stops after the k-th nested
\* execute has landed and before the saga's own event is persisted
Faults == {"none", "infra1", "infra2", "stop1", "stop2"}

\* the account engine as a saga sees it: an infrastructure error lands nothing
Call(accts, who, c, infra) ==
    With(accts, LAMBDA m :
        IF infra THEN [res |-> Err("Infrastructure"), accts |-> m]
        ELSE With(Execute(m[who], c), LAMBDA x :
                [res |-> x.res, accts |-> [m EXCEPT ![who] = x.a]]))

SagaOk(accts) == [ok |-> TRUE, err |-> "", ae |-> "", accts |-> accts]
SagaErr(r, accts) ==
    [ok |-> FALSE, err |-> IF r.err = "Infrastructure" THEN "AggregateError" ELSE "AccountError",
     ae |-> r.err, accts |-> accts]

\* the undo future of OrderServices::lock_funds, awaited or spawned
UndoLock(accts, order_id, who) == Call(accts, who, unlock_funds(order_id), FALSE).accts

\* a lock_funds that undoes only after an error of the account, not of the engine
services_lock_funds_sparing(accts, order_id, who, asset, amount, timestamp, infra) ==
    With(Call(accts, who, lock_funds(order_id, timestamp, asset, amount), infra), LAMBDA x :
        IF x.res.ok \/ x.res.err = "DuplicateLock" THEN SagaOk(x.accts)
        ELSE IF x.res.err = "Infrastructure" THEN SagaErr(x.res, x.accts)
        ELSE SagaErr(x.res, UndoLock(x.accts, order_id, who)))

\* OrderServices::lock_funds
services_lock_funds(accts, order_id, who, asset, amount, timestamp, infra) ==
    With(Call(accts, who, lock_funds(order_id, timestamp, asset, amount), infra), LAMBDA x :
        IF x.res.ok \/ x.res.err = "DuplicateLock" THEN SagaOk(x.accts)
        ELSE SagaErr(x.res, UndoLock(x.accts, order_id, who)))

\* OrderServices::unlock_funds
services_unlock_funds(accts, order_id, who, infra) ==
    With(Call(accts, who, unlock_funds(order_id), infra), LAMBDA x :
        IF x.res.ok THEN SagaOk(x.accts) ELSE SagaErr(x.res, x.accts))

\* OrderServices::settle
services_settle(accts, order_id, who, pair, receive_asset, receive_amount, infra) ==
    With(Call(accts, who, settle(order_id, pair, receive_asset, receive_amount), infra),
         LAMBDA x :
        IF x.res.ok \/ x.res.err = "DuplicateTransaction" THEN SagaOk(x.accts)
        ELSE SagaErr(x.res, x.accts))

OrderPanicked == [NoOrder EXCEPT !.tag = "Panicked"]

OrderEvent(type, config, buyer, timestamp, reason) ==
    [type |-> type, config |-> config, buyer |-> buyer, timestamp |-> timestamp,
     reason |-> reason]

\* Order::apply
OrderApply(o, e) ==
    CASE o.tag = "Uninitialized" /\ e.type = "Initialized" ->
            [NoOrder EXCEPT !.tag = "Initialized", !.config = e.config]
      [] o.tag = "Initialized" /\ e.type = "Placed" ->
            [NoOrder EXCEPT !.tag = "Placed", !.config = o.config, !.timestamp = e.timestamp]
      [] o.tag = "Placed" /\ e.type = "Cancelling" ->
            [NoOrder EXCEPT !.tag = "Cancelling", !.config = o.config,
                            !.timestamp = e.timestamp, !.reason = e.reason]
      [] o.tag = "Cancelling" /\ e.type = "Cancelled" ->
            [NoOrder EXCEPT !.tag = "Cancelled", !.config = o.config,
                            !.timestamp = e.timestamp, !.reason = o.reason]
      [] o.tag = "Placed" /\ e.type = "Buying" ->
            [NoOrder EXCEPT !.tag = "Buying", !.config = o.config, !.buyer = e.buyer,
                            !.timestamp = e.timestamp]
      [] o.tag = "Buying" /\ e.type = "Bought" ->
            [NoOrder EXCEPT !.tag = "Bought", !.config = o.config, !.buyer = o.buyer,
                            !.timestamp = e.timestamp]
      [] o.tag = "Buying" /\ e.type = "Failed" ->
            [NoOrder EXCEPT !.tag = "Failed", !.config = o.config,
                            !.timestamp = e.timestamp, !.reason = e.reason]
      [] o.tag = "Bought" /\ e.type = "Settled" ->
            [NoOrder EXCEPT !.tag = "Settled", !.config = o.config, !.timestamp = e.timestamp]
      [] o.tag = "Buying" /\ e.type = "Placed" ->
            [NoOrder EXCEPT !.tag = "Placed", !.config = o.config, !.timestamp = e.timestamp]
      [] OTHER -> OrderPanicked

RECURSIVE OrderApplyAll(_, _)
OrderApplyAll(o, events) ==
    IF events = <<>> THEN o ELSE OrderApplyAll(OrderApply(o, Head(events)), Tail(events))

Handled(res, ae, events, accts, landed) ==
    [res |-> res, ae |-> ae, events |-> events, accts |-> accts, landed |-> landed]

InvalidState(accts) == Handled("InvalidState", "", <<>>, accts, FALSE)

\* Order::handle, (Initialized, Continue)
ContinueInitialized(o, accts, now, fault) ==
    With(services_lock_funds(accts, o.config.order_id, o.config.seller,
                             o.config.sell_asset, o.config.sell_amount, now,
                             fault = "infra1"), LAMBDA l :
        IF l.ok
        THEN Handled("Ok", "", <<OrderEvent("Placed", NoConfig, "", now, "")>>, l.accts, TRUE)
        ELSE IF l.err = "AccountError"
        THEN Handled("Ok", l.ae, <<OrderEvent("Failed", NoConfig, "", now, l.ae)>>, l.accts, FALSE)
        ELSE Handled(l.err, l.ae, <<>>, l.accts, FALSE))

\* Order::handle, (Cancelling, Continue)
ContinueCancelling(o, accts, now, fault) ==
    With(services_unlock_funds(accts, o.config.order_id, o.config.seller, fault = "infra1"),
         LAMBDA u :
        IF u.ok
        THEN Handled("Ok", "", <<OrderEvent("Cancelled", NoConfig, "", o.timestamp, "")>>,
                     u.accts, TRUE)
        ELSE Handled(u.err, u.ae, <<>>, u.accts, FALSE))

\* a (Buying, Continue) that gives the seller's funds back when the buyer's lock fails
ContinueBuyingReleasing(o, accts, now, fault) ==
    With(services_lock_funds(accts, o.config.order_id, o.buyer, o.config.buy_asset,
                             o.config.buy_amount, o.timestamp, fault = "infra1"), LAMBDA l :
        IF l.ok
        THEN Handled("Ok", "", <<OrderEvent("Bought", NoConfig, "", now, "")>>, l.accts, TRUE)
        ELSE IF l.err = "AccountError"
        THEN Handled("Ok", l.ae, <<OrderEvent("Placed", NoConfig, "", o.timestamp, "")>>,
                     UndoLock(l.accts, o.config.order_id, o.config.seller), FALSE)
        ELSE Handled(l.err, l.ae, <<>>, l.accts, FALSE))

\* Order::handle, (Buying, Continue)
ContinueBuying(o, accts, now, fault) ==
    With(services_lock_funds(accts, o.config.order_id, o.buyer, o.config.buy_asset,
                             o.config.buy_amount, o.timestamp, fault = "infra1"), LAMBDA l :
        IF l.ok
        THEN Handled("Ok", "", <<OrderEvent("Bought", NoConfig, "", now, "")>>, l.accts, TRUE)
        ELSE IF l.err = "AccountError"
        THEN Handled("Ok", l.ae, <<OrderEvent("Placed", NoConfig, "", o.timestamp, "")>>,
                     l.accts, FALSE)
        ELSE Handled(l.err, l.ae, <<>>, l.accts, FALSE))

\* Order::handle, (Bought, Continue)
ContinueBought(o, accts, now, fault) ==
    With(services_settle(accts, o.config.order_id, o.config.seller, o.buyer,
                         o.config.buy_asset, o.config.buy_amount, fault = "infra1"), LAMBDA s1 :
        IF ~s1.ok THEN Handled(s1.err, s1.ae, <<>>, s1.accts, FALSE)
        ELSE IF fault = "stop1" THEN Handled("Ok", "", <<>>, s1.accts, TRUE)
        ELSE With(services_settle(s1.accts, o.config.order_id, o.buyer, o.config.seller,
                                  o.config.sell_asset, o.config.sell_amount,
                                  fault = "infra2"), LAMBDA s2 :
                IF ~s2.ok THEN Handled(s2.err, s2.ae, <<>>, s2.accts, FALSE)
                ELSE Handled("Ok", "", <<OrderEvent("Settled", NoConfig, "", o.timestamp, "")>>,
                             s2.accts, TRUE)))

\* a handler whose Continue on a placed order locks the seller's funds again
HandleContinuePlaced(o, accts, now, fault) ==
    CASE o.tag = "Initialized" -> ContinueInitialized(o, accts, now, fault)
      [] o.tag = "Placed" -> ContinueInitialized(o, accts, now, fault)
      [] o.tag = "Cancelling" -> ContinueCancelling(o, accts, now, fault)
      [] o.tag = "Buying" -> ContinueBuying(o, accts, now, fault)
      [] o.tag = "Bought" -> ContinueBought(o, accts, now, fault)
      [] OTHER -> InvalidState(accts)

\* Order::handle, Continue
HandleContinue(o, accts, now, fault) ==
    CASE o.tag = "Initialized" -> ContinueInitialized(o, accts, now, fault)
      [] o.tag = "Cancelling" -> ContinueCancelling(o, accts, now, fault)
      [] o.tag = "Buying" -> ContinueBuying(o, accts, now, fault)
      [] o.tag = "Bought" -> ContinueBought(o, accts, now, fault)
      [] OTHER -> InvalidState(accts)

\* the faults a Continue in state `tag` can meet: one nested execute, or two in Bought
FaultsOf(tag) ==
    IF tag = "Bought" THEN Faults
    ELSE IF tag \in {"Initialized", "Cancelling", "Buying"} THEN {"none", "infra1", "stop1"}
    ELSE {"none"}

Stops == {"stop1", "stop2"}

\* CqrsFramework::execute on the order engine: handle, then commit and apply the
\* events unless the process stopped first
OrderCommit(cmd, handled, fault) ==
    /\ order.tag # "Panicked"
    /\ \E h \in {handled} :
          /\ acct' = h.accts
          /\ order' = IF h.res = "Ok" /\ fault \notin Stops
                      THEN OrderApplyAll(order, h.events) ELSE order
          /\ last' = [agg |-> "order", cmd |-> cmd, fault |-> fault, res |-> h.res,
                      ae |-> h.ae,
                      event |-> IF h.events = <<>> THEN "" ELSE h.events[1].type,
                      landed |-> h.landed]
    /\ UNCHANGED <<transfer, tasks, pt, ptHist, ledger, effLog, init, track, guards, lockLog, callers, view, viewLog>>

OrderOpen(config) ==
    /\ config.order_id = OrderId
    /\ OrderCommit("Open",
                IF order.tag = "Uninitialized"
                THEN Handled("Ok", "", <<OrderEvent("Initialized", config, "", 0, "")>>, acct, FALSE)
                ELSE InvalidState(acct),
                "none")

OrderCancel(reason, now) ==
    /\ now >= 0
    /\ OrderCommit("Cancel",
                IF order.tag = "Placed"
                THEN Handled("Ok", "", <<OrderEvent("Cancelling", NoConfig, "", now, reason)>>, acct, FALSE)
                ELSE InvalidState(acct),
                "none")

OrderBuy(buyer, timestamp) ==
    /\ buyer \in Accounts
    /\ OrderCommit("Buy",
                IF order.tag = "Placed"
                THEN Handled("Ok", "", <<OrderEvent("Buying", NoConfig, buyer, timestamp, "")>>, acct, FALSE)
                ELSE InvalidState(acct),
                "none")

OrderContinue(now, fault) ==
    /\ fault \in FaultsOf(order.tag)
    /\ OrderCommit("Continue", HandleContinue(order, acct, now, fault), fault)

(***************************************************************************)
(* The order saga with its two accounts                                    *)
(***************************************************************************)
\* an account as Open and one Deposit leave it
Funded(id, asset, amount) ==
    Execute(Execute(Uninitialized, LifecycleCmd("Open", id)).a,
            TxCmd("Deposit", "0x01", 0, NoAccount, asset, amount)).a

SellerFunds == {100, 5}
BuyerFunds == {100, 5}
OrderTimes == {1, 2}

OrderConfigs ==
    {[order_id |-> OrderId, seller |-> s, sell_asset |-> "BTC", sell_amount |-> 10,
      buy_asset |-> "ETH", buy_amount |-> 20, timestamp |-> 1] : s \in Accounts}

InitOrder ==
    /\ \E x \in SellerFunds, y \in BuyerFunds :
          \E b \in {Funded("B", "ETH", y), Uninitialized} :
              acct = [a \in Accounts |-> IF a = "A" THEN Funded("A", "BTC", x) ELSE b]
    /\ init = [a \in Accounts |-> acct[a].assets]
    /\ order = NoOrder
    /\ transfer = NoTransfer
    /\ tasks = <<>>
    /\ viewLog = NoEntries
    /\ view = DefaultView
    /\ callers = NoCallers
    /\ lockLog = NoLocks
    /\ guards = NoGuards
    /\ pt = NewProcessed(DEFAULT_TTL)
    /\ ptHist = <<>>
    /\ ledger = ZeroLedger
    /\ effLog = [a \in Accounts |-> NoEffects]
    /\ last = NoLast
    /\ track = "none"

NextOrder ==
    \/ \E config \in OrderConfigs : OrderOpen(config)
    \/ \E now \in OrderTimes, fault \in Faults : OrderContinue(now, fault)
    \/ \E now \in OrderTimes : OrderCancel("changed my mind", now)
    \/ \E buyer \in Accounts, timestamp \in OrderTimes : OrderBuy(buyer, timestamp)
    \/ \E a \in Accounts, kind \in {"Disable", "Enable"} : ClientLifecycle(a, kind)

SpecOrder == InitOrder /\ [][NextOrder]_vars

OrderGraph ==
    {<<"Uninitialized", "Initialized">>, <<"Initialized", "Placed">>,
     <<"Initialized", "Failed">>, <<"Placed", "Cancelling">>, <<"Cancelling", "Cancelled">>,
     <<"Placed", "Buying">>, <<"Buying", "Bought">>, <<"Buying", "Placed">>,
     <<"Bought", "Settled">>}

\* C3: every change of the Order's state is an edge of the transition graph
\* (Uninitialized->Initialized, Initialized->Placed, Initialized->Failed,
\* Placed->Cancelling, Cancelling->Cancelled, Placed->Buying, Buying->Bought,
\* Buying->Placed, Bought->Settled), and an accepted command that emits the event of
\* an edge takes that edge.
C3_OrderGraph ==
    [][order'.tag # order.tag => <<order.tag, order'.tag>> \in OrderGraph]_vars

\* the scenario of the end-to-end swap: A sells 10 BTC of 100 for 20 ETH, B buys
\* with 100 ETH (the Settled state keeps no buyer: B was the buyer when its account
\* has recorded the order's Settle)
SwapScenario ==
    /\ init["A"] = [s \in {"BTC"} |-> 100]
    /\ init["B"] = [s \in {"ETH"} |-> 100]
    /\ order.config.seller = "A"
    /\ OrderId \in Window("B")

\* C4: in the swap scenario, once the order is Settled the balances are
\* A BTC=90, A ETH=20, B BTC=10, B ETH=80.
C4_SwapBalances ==
    (SwapScenario /\ order.tag = "Settled") =>
        /\ Balance(acct["A"], "BTC") = 90
        /\ Balance(acct["A"], "ETH") = 20
        /\ Balance(acct["B"], "BTC") = 10
        /\ Balance(acct["B"], "ETH") = 80

InService(a) == acct[a].tag = "InService"

SuccessOf(tag) ==
    CASE tag = "Initialized" -> "Placed"
      [] tag = "Buying" -> "Bought"
      [] tag = "Bought" -> "Settled"
      [] tag = "Cancelling" -> "Cancelled"
      [] OTHER -> tag

\* the last Continue landed its account effect and stopped before the checkpoint
EffectLanded ==
    /\ last.agg = "order" /\ last.cmd = "Continue"
    /\ last.fault \in Stops /\ last.landed

\* C5: when the effect of a saga step has landed without its checkpoint and the
\* accounts are in service, a re-sent Continue that meets no fault takes the Order
\* to the step's success state (Placed, Bought, Settled, Cancelled).
C5_RetryAdvances ==
    [][(/\ EffectLanded
        /\ \A a \in Accounts : InService(a)
        /\ last'.agg = "order" /\ last'.cmd = "Continue" /\ last'.fault = "none")
       => order'.tag = SuccessOf(order.tag)]_vars

\* C9: a Continue in Initialized whose LockFunds is rejected with an AccountError
\* succeeds with a Failed event, and the Order becomes Failed with its config kept.
C9_LockFailureFails ==
    [][(/\ order.tag = "Initialized"
        /\ last'.agg = "order" /\ last'.cmd = "Continue" /\ last'.fault = "none"
        /\ last'.ae \notin {"", "Infrastructure"}
        /\ last' # last \/ order' # order)
       => /\ last'.res = "Ok" /\ last'.event = "Failed"
          /\ order'.tag = "Failed"
          /\ order'.config = order.config]_vars

(***************************************************************************)
(* TransactionGuard                                                        *)
(***************************************************************************)
\* TransactionGuard::new: redo is Some(future), here a one-element sequence
NewGuard(redo) == [redo |-> <<redo>>]

\* a commit that leaves the future in the guard
commit_keeping(guard) == guard

\* TransactionGuard::commit
commit(guard) == [guard EXCEPT !.redo = <<>>]

\* a guard whose drop forgets the future
drop_forgetting(guard, spawned) == spawned

\* Drop for TransactionGuard: tokio::spawn of the future unless committed
drop(guard, spawned) == IF guard.redo # <<>> THEN spawned \o guard.redo ELSE spawned

(***************************************************************************)
(* Transfer aggregate: the two-leg saga                                    *)
(***************************************************************************)
debit(txid, timestamp, to_account, asset, amount) ==
    TxCmd("Debit", txid, timestamp, to_account, asset, amount)
reverse_debit(txid, timestamp, to_account, asset, amount) ==
    TxCmd("ReverseDebit", txid, timestamp, to_account, asset, amount)
credit(txid, timestamp, from_account, asset, amount) ==
    TxCmd("Credit", txid, timestamp, from_account, asset, amount)
reverse_credit(txid, timestamp, from_account, asset, amount) ==
    TxCmd("ReverseCredit", txid, timestamp, from_account, asset, amount)

\* an undo future: the account it addresses and the command it executes
Undo(who, c) == [who |-> who, c |-> c]

\* running an undo future: every outcome of its execute is swallowed
RunUndo(accts, undo) == Call(accts, undo.who, undo.c, FALSE).accts

LegOk(accts, guard, landed) ==
    [ok |-> TRUE, err |-> "", ae |-> "", accts |-> accts, guard |-> guard, landed |-> landed]
LegErr(r, accts) ==
    [ok |-> FALSE, err |-> "AggregateError", ae |-> r.err, accts |-> accts,
     guard |-> [redo |-> <<>>], landed |-> FALSE]

\* a leg that takes every answer of the account for an acknowledgement
LegAcknowledgingAll(x, undo) == LegOk(x.accts, NewGuard(undo), x.res.ok)

\* the acknowledgement of a leg: Ok and DuplicateTransaction hand out the guard, any
\* other error awaits the undo and is returned as TransferError::AggregateError
Leg(x, undo) ==
    IF x.res.ok \/ x.res.err = "DuplicateTransaction"
    THEN LegOk(x.accts, NewGuard(undo), x.res.ok)
    ELSE LegErr(x.res, RunUndo(x.accts, undo))

\* a credit leg that addresses the sender's account
services_credit_sender(accts, config, timestamp, infra) ==
    With(Call(accts, config.from_account,
              credit(config.transfer_id, timestamp, config.from_account, config.asset,
                     config.amount), infra), LAMBDA x :
        Leg(x, Undo(config.from_account,
                    reverse_credit(config.transfer_id, timestamp, config.from_account,
                                   config.asset, config.amount))))

\* TransferServices::debit
services_debit(accts, config, timestamp, infra) ==
    With(Call(accts, config.from_account,
              debit(config.transfer_id, timestamp, config.to_account, config.asset,
                    config.amount), infra), LAMBDA x :
        Leg(x, Undo(config.from_account,
                    reverse_debit(config.transfer_id, timestamp, config.to_account,
                                  config.asset, config.amount))))

\* TransferServices::credit
services_credit(accts, config, timestamp, infra) ==
    With(Call(accts, config.to_account,
              credit(config.transfer_id, timestamp, config.from_account, config.asset,
                     config.amount), infra), LAMBDA x :
        Leg(x, Undo(config.to_account,
                    reverse_credit(config.transfer_id, timestamp, config.from_account,
                                   config.asset, config.amount))))

TransferEvent(type, config, timestamp) == [type |-> type, config |-> config, timestamp |-> timestamp]

\* Transfer::apply
TransferApply(t, e) ==
    CASE e.type = "Opened" -> [tag |-> "Opened", config |-> e.config, timestamp |-> 0]
      [] e.type = "Done" ->
            [tag |-> "Done",
             config |-> IF t.tag = "Opened" THEN t.config ELSE NoTransferConfig,
             timestamp |-> e.timestamp]

RECURSIVE TransferApplyAll(_, _)
TransferApplyAll(t, events) ==
    IF events = <<>> THEN t
    ELSE TransferApplyAll(TransferApply(t, Head(events)), Tail(events))

\* the outcome of Transfer::handle: as Handled, with the futures spawned by dropped guards
Transferred(res, ae, events, accts, landed, spawned) ==
    [res |-> res, ae |-> ae, events |-> events, accts |-> accts, landed |-> landed,
     spawned |-> spawned]

\* Transfer::handle, Continue in Opened.  `landed` tells that this run's Debit was
\* accepted; a process that stops runs no destructor, so it spawns nothing.
TransferContinue(t, accts, fault) ==
    LET timestamp == 0
    IN  With(services_debit(accts, t.config, timestamp, fault = "infra1"), LAMBDA d :
            IF ~d.ok THEN Transferred(d.err, d.ae, <<>>, d.accts, FALSE, <<>>)
            ELSE IF fault = "stop1" THEN Transferred("Ok", "", <<>>, d.accts, d.landed, <<>>)
            ELSE With(services_credit(d.accts, t.config, timestamp, fault = "infra2"),
                      LAMBDA c :
                    IF ~c.ok
                    THEN Transferred(c.err, c.ae, <<>>, c.accts, d.landed,
                                     drop(d.guard, <<>>))
                    ELSE Transferred("Ok", "",
                                     <<TransferEvent("Done", NoTransferConfig, timestamp)>>,
                                     c.accts, d.landed,
                                     drop(commit(d.guard), drop(commit(c.guard), <<>>)))))

\* Transfer::handle
TransferHandle(t, accts, cmd, config, fault) ==
    IF cmd = "Open"
    THEN IF t.tag = "Uninitialized"
         THEN Transferred("Ok", "", <<TransferEvent("Opened", config, 0)>>, accts, FALSE, <<>>)
         ELSE Transferred("InvalidState", "", <<>>, accts, FALSE, <<>>)
    ELSE IF t.tag = "Opened" THEN TransferContinue(t, accts, fault)
         ELSE Transferred("InvalidState", "", <<>>, accts, FALSE, <<>>)

\* the futures handed to tokio::spawn and not yet run are at most this many
MaxTasks == 2

\* CqrsFramework::execute on the transfer engine
TransferCommit(cmd, config, fault) ==
    \E h \in {TransferHandle(transfer, acct, cmd, config, fault)} :
        /\ Len(tasks) + Len(h.spawned) <= MaxTasks
        /\ acct' = h.accts
        /\ tasks' = tasks \o h.spawned
        /\ transfer' = IF h.res = "Ok" /\ fault \notin Stops
                       THEN TransferApplyAll(transfer, h.events) ELSE transfer
        /\ last' = [agg |-> "transfer", cmd |-> cmd, fault |-> fault, res |-> h.res,
                    ae |-> h.ae,
                    event |-> IF h.events = <<>> THEN "" ELSE h.events[1].type,
                    landed |-> h.landed]
        /\ UNCHANGED <<order, pt, ptHist, ledger, effLog, init, track, guards, lockLog, callers, view, viewLog>>

TransferOpen(config) ==
    /\ config.transfer_id = TransferId
    /\ TransferCommit("Open", config, "none")

TransferResend(fault) ==
    /\ fault \in (IF transfer.tag = "Opened" THEN Faults ELSE {"none"})
    /\ TransferCommit("Continue", NoTransferConfig, fault)

\* the runtime polls one spawned future to completion
RunTask(i) ==
    /\ i \in 1..Len(tasks)
    /\ \E x \in {Call(acct, tasks[i].who, tasks[i].c, FALSE)} :
          /\ acct' = x.accts
          /\ last' = [NoLast EXCEPT !.agg = "task", !.cmd = tasks[i].c.kind,
                                    !.res = IF x.res.ok THEN "Ok" ELSE "Err",
                                    !.ae = x.res.err, !.landed = x.res.ok]
    /\ tasks' = SubSeq(tasks, 1, i - 1) \o SubSeq(tasks, i + 1, Len(tasks))
    /\ UNCHANGED <<order, transfer, pt, ptHist, ledger, effLog, init, track, guards, lockLog, callers, view, viewLog>>

RunSomeTask == \E i \in 1..Len(tasks) : RunTask(i)

(***************************************************************************)
(* The transfer saga with its two accounts                                 *)
(***************************************************************************)
\* an account as Open leaves it
Opened(id) == Execute(Uninitialized, LifecycleCmd("Open", id)).a

SenderFunds == {500, 100}

TransferConfigs ==
    {[transfer_id |-> TransferId, from_account |-> "A", to_account |-> t, asset |-> "BTC",
      amount |-> 200, timestamp |-> 1] : t \in Accounts}

InitTransfer ==
    /\ \E x \in SenderFunds :
          \E b \in {Opened("B"), Uninitialized} :
              acct = [a \in Accounts |-> IF a = "A" THEN Funded("A", "BTC", x) ELSE b]
    /\ init = [a \in Accounts |-> acct[a].assets]
    /\ order = NoOrder
    /\ transfer = NoTransfer
    /\ tasks = <<>>
    /\ viewLog = NoEntries
    /\ view = DefaultView
    /\ callers = NoCallers
    /\ lockLog = NoLocks
    /\ guards = NoGuards
    /\ pt = NewProcessed(DEFAULT_TTL)
    /\ ptHist = <<>>
    /\ ledger = ZeroLedger
    /\ effLog = [a \in Accounts |-> NoEffects]
    /\ last = NoLast
    /\ track = "none"

NextTransfer ==
    \/ \E config \in TransferConfigs : TransferOpen(config)
    \/ \E fault \in Faults : TransferResend(fault)
    \/ RunSomeTask
    \/ \E a \in Accounts, kind \in {"Open", "Disable", "Enable"} : ClientLifecycle(a, kind)

SpecTransfer == InitTransfer /\ [][NextTransfer]_vars

\* tokio runs every future it was handed
FairTransfer == SpecTransfer /\ WF_vars(RunSomeTask)

Sender == transfer.config.from_account
Receiver == transfer.config.to_account

\* the balance an account started with
Initially(a, asset) == MapGet(init[a], asset, 0)

\* the last command was a Continue that met no fault, whose Debit was accepted and
\* whose Credit the receiving account rejected
CreditRejected(l) ==
    /\ l.agg = "transfer" /\ l.cmd = "Continue" /\ l.fault = "none"
    /\ l.landed
    /\ l.res # "Ok"
    /\ l.ae \notin {"", "Infrastructure"}

\* the future a dropped debit guard hands to the runtime
ReverseDebitOf(config) ==
    Undo(config.from_account,
         reverse_debit(config.transfer_id, 0, config.to_account, config.asset, config.amount))

\* the sender is as it was before the Debit: the amount is back and the transfer id
\* has left its dedup window
DebitReversed ==
    /\ Sender \in Accounts
    /\ TransferId \notin Window(Sender)
    /\ Balance(acct[Sender], transfer.config.asset) = Initially(Sender, transfer.config.asset)

SenderOutOfService == Sender \in Accounts /\ ~InService(Sender)

\* C6: a Continue whose Debit is accepted and whose Credit is rejected returns an
\* error, leaves the Transfer Opened and the receiving account unchanged, takes the
\* amount from the sender and hands a ReverseDebit to the runtime; from there on,
\* unless the sender leaves service, the Debit is eventually reversed: the sender has
\* its pre-debit balance and the transfer id is out of its dedup window.
C6_Compensation ==
    /\ [][(CreditRejected(last') /\ last' # last)
           => /\ last'.res = "AggregateError"
              /\ transfer.tag = "Opened" /\ transfer' = transfer
              /\ acct'[Receiver] = acct[Receiver]
              /\ Balance(acct[Sender], transfer.config.asset)
                    = Initially(Sender, transfer.config.asset)
              /\ Balance(acct'[Sender], transfer.config.asset)
                    = Balance(acct[Sender], transfer.config.asset) - transfer.config.amount
              /\ TransferId \in Window(Sender)'
              /\ \E i \in 1..Len(tasks') : tasks'[i] = ReverseDebitOf(transfer.config)]_vars
    /\ (CreditRejected(last) ~> (DebitReversed \/ SenderOutOfService))

\* a spawned ReverseDebit has just been applied: the Transfer is still Opened, the
\* sender has its funds back and the receiver never was in service
C6_Witness ==
    /\ last.agg = "task" /\ last.cmd = "ReverseDebit" /\ last.res = "Ok"
    /\ transfer.tag = "Opened"
    /\ DebitReversed
    /\ Initially(Sender, transfer.config.asset) >= transfer.config.amount
    /\ acct[Receiver].tag = "Uninitialized"

\* the scenario of the transfer: X = A holds 500 BTC, Y = B is in service with no BTC,
\* and the Transfer of 200 BTC from A to B has just been opened
TransferScenario ==
    /\ init["A"] = [s \in {"BTC"} |-> 500]
    /\ InService("A") /\ InService("B")
    /\ Balance(acct["A"], "BTC") = 500 /\ Balance(acct["B"], "BTC") = 0
    /\ transfer.tag = "Opened"
    /\ Sender = "A" /\ Receiver = "B"
    /\ transfer.config.asset = "BTC" /\ transfer.config.amount = 200
    /\ last.agg = "transfer" /\ last.cmd = "Open" /\ last.res = "Ok"

Resent(l) == l.agg = "transfer" /\ l.cmd = "Continue" /\ l.fault = "none"

\* C7: in the transfer scenario a Continue takes the Transfer to Done with A BTC=300
\* and B BTC=200; a Continue on a Done Transfer changes no account and not the
\* Transfer.
C7_TransferScenario ==
    [][/\ (TransferScenario /\ Resent(last') /\ last' # last)
          => /\ last'.res = "Ok"
             /\ transfer'.tag = "Done"
             /\ Balance(acct'["A"], "BTC") = 300
             /\ Balance(acct'["B"], "BTC") = 200
       /\ (transfer.tag = "Done" /\ Resent(last') /\ last' # last)
          => /\ acct' = acct
             /\ transfer' = transfer]_vars

\* Continue has been sent again to the Done Transfer of the scenario
C7_Witness ==
    /\ init["A"] = [s \in {"BTC"} |-> 500]
    /\ transfer.tag = "Done"
    /\ Resent(last) /\ last.res = "InvalidState"
    /\ Balance(acct["A"], "BTC") = 300
    /\ Balance(acct["B"], "BTC") = 200

SellerLock(o) == [asset |-> o.config.sell_asset, amount |-> o.config.sell_amount]

HoldsSellerLock(accts, o) ==
    /\ o.config.order_id \in DOMAIN accts[o.config.seller].reserving
    /\ accts[o.config.seller].reserving[o.config.order_id] = SellerLock(o)

\* the last command was a Continue whose LockFunds was rejected with InsufficientFunds
LockRefused(l) ==
    /\ l.agg = "order" /\ l.cmd = "Continue" /\ l.fault = "none"
    /\ l.ae = "InsufficientFunds"

\* C10: a Continue in Buying whose LockFunds on the buyer is rejected with
\* InsufficientFunds returns the Order to Placed with its config, leaves the buyer's
\* account and the seller's account as they were, and the seller's lock
\* (order_id, sell_asset, sell_amount) held before the step is held after it.
C10_BuyerLockRefused ==
    [][(/\ order.tag = "Buying"
        /\ LockRefused(last')
        /\ last' # last \/ order' # order)
       => /\ last'.res = "Ok"
          /\ order'.tag = "Placed" /\ order'.config = order.config
          /\ acct'[order.buyer] = acct[order.buyer]
          /\ acct'[order.config.seller] = acct[order.config.seller]
          /\ HoldsSellerLock(acct, order) => HoldsSellerLock(acct', order')]_vars

\* the buyer's lock has just been refused: the Order is back in Placed and the seller
\* holds the order's lock
C10_Witness ==
    /\ LockRefused(last)
    /\ order.tag = "Placed"
    /\ last.event = "Placed"
    /\ HoldsSellerLock(acct, order)

(***************************************************************************)
(* The account's command handler, tried on every reachable account state   *)
(***************************************************************************)
\* the commands tried: those of the clients, on both assets and with the amounts 0
\* and 3 as well
TriedAmounts == ClientAmounts \cup {0, 3}

Tried(kinds) ==
    {TxCmd(k, x, t, NoAccount, s, m) :
        k \in kinds, x \in ClientTxids, t \in ClientTimes, s \in Assets, m \in TriedAmounts}

\* the same command as another variant
As(c, kind) == [c EXCEPT !.kind = kind]

WindowOf(state) == DOMAIN state.processed_transactions.txids

SameBalances(s, t) == \A x \in Assets : Balance(s, x) = Balance(t, x)

\* C11: on every in-service account state, for every txid X outside the dedup window
\* and every asset whose balance covers the amount, Debit(X) is accepted, the
\* ReverseDebit(X) after it is accepted and leaves every balance as before the Debit
\* and X outside the window, and a further Debit(X) is accepted.
C11_DebitReverseDebit ==
    \A a \in ClientAccounts :
        InService(a) =>
            \A c \in Tried({"Debit"}) :
                (c.txid \notin Window(a) /\ Balance(acct[a], c.asset) >= c.amount) =>
                    LET d == Execute(acct[a], c)
                        r == Execute(d.a, As(c, "ReverseDebit"))
                        again == Execute(r.a, c)
                    IN  /\ d.res.ok /\ c.txid \in WindowOf(d.a)
                        /\ r.res.ok
                        /\ SameBalances(r.a, acct[a])
                        /\ c.txid \notin WindowOf(r.a)
                        /\ again.res.ok

\* an in-service account that holds a lock and has another txid in its window can be
\* debited by all it has
C11_Witness ==
    \E a \in ClientAccounts, c \in Tried({"Debit"}) :
        /\ InService(a)
        /\ c.txid \notin Window(a) /\ Window(a) # {}
        /\ DOMAIN acct[a].reserving # {}
        /\ c.amount > 0 /\ Balance(acct[a], c.asset) = c.amount
        /\ Balance(Execute(acct[a], c).a, c.asset) = 0

\* C12: on every in-service account state, after a LockFunds(X, asset, amount) that
\* is accepted, UnlockFunds(X) is accepted with a FundsUnlocked event carrying that
\* asset and amount, every balance is as before the lock, and no lock X is held.
C12_LockUnlock ==
    \A a \in ClientAccounts :
        InService(a) =>
            \A c \in Tried({"LockFunds"}) :
                LET l == Execute(acct[a], c)
                    u == Execute(l.a, unlock_funds(c.txid))
                IN  l.res.ok =>
                        /\ c.txid \in DOMAIN l.a.reserving
                        /\ Balance(l.a, c.asset) = Balance(acct[a], c.asset) - c.amount
                        /\ u.res.ok
                        /\ Len(u.res.events) = 1
                        /\ u.res.events[1].type = "FundsUnlocked"
                        /\ u.res.events[1].asset = c.asset
                        /\ u.res.events[1].amount = c.amount
                        /\ SameBalances(u.a, acct[a])
                        /\ c.txid \notin DOMAIN u.a.reserving

\* an in-service account that holds one lock accepts a second one for all it has left
C12_Witness ==
    \E a \in ClientAccounts, c \in Tried({"LockFunds"}) :
        /\ InService(a)
        /\ DOMAIN acct[a].reserving # {}
        /\ c.amount > 0 /\ Balance(acct[a], c.asset) = c.amount
        /\ Execute(acct[a], c).res.ok
        /\ Balance(Execute(acct[a], c).a, c.asset) = 0

\* the answers of an account to a command whose effect it already holds
RepeatErrors == {"DuplicateTransaction", "DuplicateLock", "LockNotFound", "TransactionNotFound"}

\* C13: on every reachable account state and for every transaction command c, a
\* second submission of c leaves the account as the first one left it, emits no
\* event and is rejected: with DuplicateTransaction, DuplicateLock, LockNotFound or
\* TransactionNotFound when the first one was accepted, and as the first one was
\* when that was rejected.
C13_Idempotence ==
    \A a \in ClientAccounts :
        acct[a].tag # "Panicked" =>
            \A c \in Tried(TransactionKinds) :
                LET once == Execute(acct[a], c)
                    twice == Execute(once.a, c)
                IN  /\ twice.a = once.a
                    /\ twice.res.events = <<>>
                    /\ ~twice.res.ok
                    /\ once.res.ok => twice.res.err \in RepeatErrors
                    /\ ~once.res.ok => twice.res.err = once.res.err

ReversedType(kind) == IF kind = "ReverseDebit" THEN "DebitReversed" ELSE "CreditReversed"

\* C14: on every in-service account state, ReverseDebit / ReverseCredit with txid X
\* emits DebitReversed / CreditReversed when X is in the dedup window and fails with
\* TransactionNotFound when it is not; once the reversal is applied X is out of the
\* window, and the same reversal again fails with TransactionNotFound and leaves the
\* account as it is.
C14_ReversalNeedsTxid ==
    \A a \in ClientAccounts :
        InService(a) =>
            \A c \in Tried({"ReverseDebit", "ReverseCredit"}) :
                LET h == Handle(acct[a], c)
                    r == Execute(acct[a], c)
                    again == Execute(r.a, c)
                IN  /\ c.txid \in Window(a) =>
                          /\ h.ok /\ Len(h.events) = 1
                          /\ h.events[1].type = ReversedType(c.kind)
                          /\ h.events[1].txid = c.txid
                    /\ c.txid \notin Window(a) =>
                          /\ ~h.ok /\ h.err = "TransactionNotFound" /\ h.events = <<>>
                          /\ r.a = acct[a]
                    /\ (h.ok /\ r.a.tag # "Panicked") =>
                          /\ c.txid \notin WindowOf(r.a)
                          /\ ~again.res.ok /\ again.res.err = "TransactionNotFound"
                          /\ again.res.events = <<>>
                          /\ again.a = r.a

\* an in-service account with two txids in its window, one of which a ReverseCredit
\* takes out together with all the funds
C14_Witness ==
    \E a \in ClientAccounts, c \in Tried({"ReverseCredit"}) :
        /\ InService(a)
        /\ ClientTxids \subseteq Window(a)
        /\ c.amount > 0 /\ Balance(acct[a], c.asset) = c.amount
        /\ WindowOf(Execute(acct[a], c).a) = Window(a) \ {c.txid}
        /\ Balance(Execute(acct[a], c).a, c.asset) = 0

FirstSeen(state, txid) == state.processed_transactions.txids[txid]

\* a Deposit, Withdraw, Debit, Credit or Settle whose txid is in the window is
\* answered DuplicateTransaction with the stored timestamp and changes nothing; one
\* that is accepted stores its own timestamp with the txid
DuplicateAnswered ==
    \A a \in ClientAccounts :
        InService(a) =>
            \A c \in Tried(DedupKinds) :
                LET x == Execute(acct[a], c)
                IN  /\ c.txid \in Window(a) =>
                          /\ ~x.res.ok /\ x.res.err = "DuplicateTransaction"
                          /\ x.res.prior = FirstSeen(acct[a], c.txid)
                          /\ x.res.events = <<>>
                          /\ x.a = acct[a]
                    /\ (x.res.ok /\ x.a.tag # "Panicked") =>
                          /\ c.txid \notin Window(a)
                          /\ c.txid \in WindowOf(x.a)
                          /\ FirstSeen(x.a, c.txid) = c.timestamp

\* the timestamp stored with a txid stays as it is for as long as the txid is in the
\* window
FirstSeenKept ==
    \A a \in ClientAccounts, x \in Txids :
        (x \in Window(a) /\ x \in Window(a)') =>
            FirstSeen(acct'[a], x) = FirstSeen(acct[a], x)

\* C15: a Deposit, Withdraw, Debit, Credit or Settle whose txid is in the account's
\* dedup window is rejected with DuplicateTransaction carrying the timestamp with
\* which the txid was recorded (the timestamp of the command that recorded it, kept
\* unchanged since); it emits no event and leaves balances, locks and the window as
\* they are.
C15_DuplicateRejected == []DuplicateAnswered /\ [][FirstSeenKept]_vars

\* both txids are in the window of an in-service account that holds funds, recorded
\* with different timestamps
C15_Witness ==
    \E a \in ClientAccounts :
        /\ InService(a)
        /\ ClientTxids \subseteq Window(a)
        /\ \E x, y \in ClientTxids : FirstSeen(acct[a], x) # FirstSeen(acct[a], y)
        /\ \E s \in Assets : Balance(acct[a], s) > 0

\* the commands tried, and each of them with the largest amount there is
TriedToTheLimit ==
    Tried(TransactionKinds) \cup {[c EXCEPT !.amount = MaxU64] : c \in Tried(TransactionKinds)}

\* C16: on every reachable in-service account state, the events of every accepted
\* transaction command are applied without an arithmetic failure: no balance is
\* taken below zero and none above the maximum of the balance type.
C16_NoArithmeticFailure ==
    \A a \in ClientAccounts :
        InService(a) =>
            \A c \in TriedToTheLimit :
                Handle(acct[a], c).ok => Execute(acct[a], c).a.tag # "Panicked"

\* the account as Account::apply leaves it on AccountOpened
Fresh(s, account_id) ==
    /\ s.tag = "InService"
    /\ s.account_id = account_id
    /\ s.assets = EmptyMap
    /\ s.reserving = EmptyMap
    /\ s.processed_transactions = NewProcessed(DEFAULT_TTL)

\* a lifecycle command refused with error e: no event, the account as it was
Refused(x, s, e) == ~x.res.ok /\ x.res.err = e /\ x.res.events = <<>> /\ x.a = s

\* C17: on every reachable account state, Open is accepted exactly from
\* Uninitialized or Closed (else AccountAlreadyExists) and leaves a fresh in-service
\* account with no balance, no lock and an empty dedup window; Disable is accepted
\* exactly from InService (else AccountNotInService) and leaves the account Disabled;
\* Enable is accepted exactly from Disabled (else AccountNotDisabled) and leaves it
\* InService; Close from Uninitialized or Closed is refused with AccountNotFound.
C17_Lifecycle ==
    \A a \in ClientAccounts :
        acct[a].tag # "Panicked" =>
            LET s == acct[a]
                open == Execute(s, LifecycleCmd("Open", a))
                disable == Execute(s, LifecycleCmd("Disable", a))
                enable == Execute(s, LifecycleCmd("Enable", a))
                close == Execute(s, LifecycleCmd("Close", a))
            IN  /\ IF s.tag \in {"Uninitialized", "Closed"}
                   THEN open.res.ok /\ Fresh(open.a, a)
                   ELSE Refused(open, s, "AccountAlreadyExists")
                /\ IF s.tag = "InService"
                   THEN disable.res.ok /\ disable.a = [s EXCEPT !.tag = "Disabled"]
                   ELSE Refused(disable, s, "AccountNotInService")
                /\ IF s.tag = "Disabled"
                   THEN enable.res.ok /\ enable.a = [s EXCEPT !.tag = "InService"]
                   ELSE Refused(enable, s, "AccountNotDisabled")
                /\ s.tag \in {"Uninitialized", "Closed"} => Refused(close, s, "AccountNotFound")

\* a disabled account that holds a balance and a processed transaction
C17_Witness ==
    \E a \in ClientAccounts :
        /\ acct[a].tag = "Disabled"
        /\ Window(a) # {}
        /\ \E x \in Assets : Balance(acct[a], x) > 0

HoldsNothing(s) == DOMAIN s.assets = {} /\ DOMAIN s.reserving = {}

\* Close, tried on the account as it is
CloseAnswered ==
    \A a \in ClientAccounts :
        acct[a].tag \in {"InService", "Disabled"} =>
            LET s == acct[a]
                x == Execute(s, LifecycleCmd("Close", a))
            IN  IF HoldsNothing(s)
                THEN /\ x.res.ok
                     /\ Len(x.res.events) = 1 /\ x.res.events[1].type = "AccountClosed"
                     /\ x.a.tag = "Closed"
                ELSE Refused(x, s, "AccountNotEmpty")

\* a step that closes an account starts from one that holds nothing
ClosedFromNothing ==
    \A a \in ClientAccounts :
        (acct'[a].tag = "Closed" /\ acct[a].tag # "Closed") =>
            acct[a].tag \in {"InService", "Disabled"} /\ HoldsNothing(acct[a])

\* C19: on every reachable InService or Disabled account state, Close is accepted
\* with the single event AccountClosed exactly when the account has no balance entry
\* and no lock, and is otherwise refused with AccountNotEmpty, no event and the
\* account unchanged; and every step that takes an account to Closed starts from an
\* account with no balance entry and no lock.
C19_CloseOnlyEmpty == []CloseAnswered /\ [][ClosedFromNothing]_vars

\* an account whose whole balance is locked: nothing to spend, and Close is refused
C19_Witness ==
    \E a \in ClientAccounts :
        /\ InService(a)
        /\ DOMAIN acct[a].reserving # {}
        /\ \A x \in Assets : Balance(acct[a], x) = 0
        /\ Execute(acct[a], LifecycleCmd("Close", a)).res.err = "AccountNotEmpty"

\* what the assets map holds of an asset, nothing when it has no entry
Held(s, asset) == IF asset \in DOMAIN s.assets THEN s.assets[asset] ELSE 0

\* C20 as claimed: on every reachable in-service account state, every Withdraw, Debit
\* and LockFunds whose amount exceeds the balance of its asset is refused with
\* InsufficientFunds and no event, and every UnlockFunds of a lock id that is not
\* held is refused with LockNotFound.
C20_AsClaimed ==
    \A a \in ClientAccounts :
        InService(a) =>
            /\ \A c \in Tried(FundsKinds) :
                    c.amount > Held(acct[a], c.asset) =>
                        Refused(Execute(acct[a], c), acct[a], "InsufficientFunds")
            /\ \A c \in Tried({"UnlockFunds"}) :
                    c.txid \notin DOMAIN acct[a].reserving =>
                        Refused(Execute(acct[a], c), acct[a], "LockNotFound")

\* the check that Account::handle makes before it looks at the balance
AnsweredBefore(s, c) ==
    IF c.kind = "LockFunds" THEN c.txid \in DOMAIN s.reserving ELSE c.txid \in WindowOf(s)

\* C20 as amended: on every reachable in-service account state, every Withdraw and
\* Debit whose txid is not in the dedup window, and every LockFunds whose id is not
\* that of a held lock, is refused with InsufficientFunds, no event and the account
\* unchanged when its amount exceeds the balance of its asset (an absent asset counts
\* as 0); with the txid in the window the answer is DuplicateTransaction, with the
\* lock held DuplicateLock, whatever the amount; and every UnlockFunds of a lock id
\* that is not held is refused with LockNotFound.
C20_InsufficientFunds ==
    \A a \in ClientAccounts :
        InService(a) =>
            /\ \A c \in Tried(FundsKinds) :
                    LET x == Execute(acct[a], c)
                    IN  IF AnsweredBefore(acct[a], c)
                        THEN Refused(x, acct[a], IF c.kind = "LockFunds" THEN "DuplicateLock"
                                                 ELSE "DuplicateTransaction")
                        ELSE c.amount > Held(acct[a], c.asset) =>
                                Refused(x, acct[a], "InsufficientFunds")
            /\ \A c \in Tried({"UnlockFunds"}) :
                    c.txid \notin DOMAIN acct[a].reserving =>
                        Refused(Execute(acct[a], c), acct[a], "LockNotFound")

\* an account with a balance, a lock and a free txid, asked for more than it has
C20_Witness ==
    \E a \in ClientAccounts, x \in ClientTxids, s \in Assets :
        /\ InService(a)
        /\ Held(acct[a], s) > 0
        /\ DOMAIN acct[a].reserving # {}
        /\ x \notin WindowOf(acct[a]) /\ x \notin DOMAIN acct[a].reserving
        /\ \A k \in FundsKinds :
                \E c \in Tried({k}) :
                    /\ c.txid = x /\ c.asset = s /\ c.amount > Held(acct[a], s)
                    /\ Execute(acct[a], c).res.err = "InsufficientFunds"
        /\ \E c \in Tried({"UnlockFunds"}) :
                c.txid = x /\ Execute(acct[a], c).res.err = "LockNotFound"

(***************************************************************************)
(* TransactionGuard on its own: guards created, committed and dropped in   *)
(* any order, and the runtime running the futures spawned                  *)
(***************************************************************************)
\* `TransactionGuard::new(redo)`: the future of guard i is named by i
GuardNew(i) ==
    /\ guards[i].scope = "unborn"
    /\ guards' = [guards EXCEPT ![i] = [@ EXCEPT !.scope = "live", !.guard = NewGuard(i)]]
    /\ UNCHANGED <<acct, order, transfer, tasks, pt, ptHist, ledger, effLog, last, init, track, lockLog, callers, view, viewLog>>

\* `guard.commit()`: commit takes the guard by value, so the guard is dropped when
\* commit returns
GuardCommit(i) ==
    /\ guards[i].scope = "live"
    /\ \E g \in {commit(guards[i].guard)} :
          /\ tasks' = drop(g, tasks)
          /\ guards' = [guards EXCEPT ![i] = [@ EXCEPT !.scope = "gone", !.guard = g,
                                                       !.committed = TRUE]]
    /\ UNCHANGED <<acct, order, transfer, pt, ptHist, ledger, effLog, last, init, track, lockLog, callers, view, viewLog>>

\* the guard leaves its scope: Drop::drop
GuardLeavesScope(i) ==
    /\ guards[i].scope = "live"
    /\ tasks' = drop(guards[i].guard, tasks)
    /\ guards' = [guards EXCEPT ![i] = [@ EXCEPT !.scope = "gone", !.guard = [redo |-> <<>>]]]
    /\ UNCHANGED <<acct, order, transfer, pt, ptHist, ledger, effLog, last, init, track, lockLog, callers, view, viewLog>>

\* the runtime runs a future handed to tokio::spawn
GuardFutureRuns ==
    /\ tasks # <<>>
    /\ \E n \in 1..Len(tasks) :
          /\ guards' = [guards EXCEPT ![tasks[n]] = [@ EXCEPT !.ran = @ + 1]]
          /\ tasks' = SubSeq(tasks, 1, n - 1) \o SubSeq(tasks, n + 1, Len(tasks))
    /\ UNCHANGED <<acct, order, transfer, pt, ptHist, ledger, effLog, last, init, track, lockLog, callers, view, viewLog>>

InitGuard ==
    /\ Idle
    /\ pt = NewProcessed(DEFAULT_TTL)
    /\ ptHist = <<>>
    /\ track = "ledger"

NextGuard ==
    \/ \E i \in GuardIds : GuardNew(i)
    \/ \E i \in GuardIds : GuardCommit(i)
    \/ \E i \in GuardIds : GuardLeavesScope(i)
    \/ GuardFutureRuns

SpecGuard == InitGuard /\ [][NextGuard]_vars

\* how often the future of guard i was handed to tokio::spawn: waiting or already run
Waiting(i) == Cardinality({n \in 1..Len(tasks) : tasks[n] = i})
Scheduled(i) == Waiting(i) + guards[i].ran

\* C21: for every guard, its future has been handed to tokio::spawn exactly once
\* when the guard has left its scope without commit, and never when the guard is
\* still in scope or was committed; a future that was never scheduled never runs,
\* so after commit the action is never run.
C21_GuardSchedulesOnce ==
    \A i \in GuardIds :
        /\ Scheduled(i) = IF guards[i].scope = "gone" /\ ~guards[i].committed THEN 1 ELSE 0
        /\ guards[i].ran <= Scheduled(i)
        /\ guards[i].committed => guards[i].ran = 0 /\ Waiting(i) = 0

\* one guard committed, one dropped whose future has run, one dropped whose future waits
C21_Witness ==
    \E i, j, k \in GuardIds :
        /\ guards[i].scope = "gone" /\ guards[i].committed
        /\ guards[j].scope = "gone" /\ ~guards[j].committed /\ guards[j].ran = 1
        /\ guards[k].scope = "gone" /\ ~guards[k].committed /\ Waiting(k) = 1

(***************************************************************************)
(* The order handler on the pairs of state and command it has no arm for   *)
(***************************************************************************)
\* the arms of Order::handle: the pairs of state and command it accepts
OrderArms ==
    {<<"Uninitialized", "Open">>, <<"Initialized", "Continue">>, <<"Placed", "Cancel">>,
     <<"Cancelling", "Continue">>, <<"Placed", "Buy">>, <<"Buying", "Continue">>,
     <<"Bought", "Continue">>}

\* a step that executes a command on the order engine
OrderCommandStep == last' # last /\ last'.agg = "order"

\* the command of the step is rejected: InvalidState, no event, no answer of an
\* account, and neither the order nor any account changes
RejectedStep ==
    /\ last'.res = "InvalidState"
    /\ last'.event = "" /\ last'.ae = "" /\ ~last'.landed
    /\ order' = order
    /\ acct' = acct

\* Continue, tried on the order as it is and on the same order in Failed, a state
\* that no step reaches
ContinueRejected ==
    \A o \in {order, [order EXCEPT !.tag = "Failed"]}, now \in OrderTimes, fault \in Faults :
        <<o.tag, "Continue">> \notin OrderArms =>
            HandleContinue(o, acct, now, fault) = InvalidState(acct)

\* C22: every command executed on the order engine in a state for which Order::handle
\* has no arm (Open outside Uninitialized, Continue outside Initialized, Cancelling,
\* Buying and Bought, Cancel or Buy outside Placed) is rejected with InvalidState,
\* emits no event, and leaves the order and every account as they were.
C22_InvalidState ==
    /\ []ContinueRejected
    /\ [][(OrderCommandStep /\ <<order.tag, last'.cmd>> \notin OrderArms) => RejectedStep]_vars

\* a Cancel refused while both locks of the swap are held
C22_Witness ==
    /\ order.tag = "Bought"
    /\ last.agg = "order" /\ last.cmd = "Cancel" /\ last.res = "InvalidState"
    /\ \A a \in Accounts : OrderId \in DOMAIN acct[a].reserving

(***************************************************************************)
(* The locks behind an order                                               *)
(***************************************************************************)
\* account `who` holds the lock `order_id` for exactly (asset, amount)
HoldsLock(who, asset, amount) ==
    /\ who \in Accounts
    /\ OrderId \in DOMAIN acct[who].reserving
    /\ acct[who].reserving[OrderId] = [asset |-> asset, amount |-> amount]

\* C23: whenever the order is Placed, Buying or Bought, the seller's account holds the
\* lock order_id for exactly (sell_asset, sell_amount), and whenever it is Bought the
\* buyer's account holds the lock order_id for exactly (buy_asset, buy_amount),
\* whoever the buyer and the seller are.
C23_LocksHeld ==
    /\ order.tag \in {"Placed", "Buying", "Bought"} =>
            HoldsLock(order.config.seller, order.config.sell_asset, order.config.sell_amount)
    /\ order.tag = "Bought" =>
            HoldsLock(order.buyer, order.config.buy_asset, order.config.buy_amount)

(***************************************************************************)
(* The locks of an account and the events that made them                   *)
(***************************************************************************)
\* every lock held is open by the events applied, for the same asset and amount
LocksFromEvents ==
    \A a \in ClientAccounts :
        acct[a].tag # "Panicked" =>
            \A x \in DOMAIN acct[a].reserving :
                /\ x \in DOMAIN lockLog[a]
                /\ lockLog[a][x] = acct[a].reserving[x]

\* a LockFunds with the id of a held lock
LockCollisionRefused ==
    \A a \in ClientAccounts :
        InService(a) =>
            \A c \in Tried({"LockFunds"}) :
                c.txid \in DOMAIN acct[a].reserving =>
                    Refused(Execute(acct[a], c), acct[a], "DuplicateLock")

\* C24: in every reachable account state, every lock id in the reserving map was put
\* there by a FundsLocked event with that txid, the same asset and the same amount,
\* and no FundsUnlocked or Settled event with that id was applied since; and a
\* LockFunds whose id is that of a held lock is refused with DuplicateLock, no event,
\* the account unchanged.
C24_LocksFromEvents == LocksFromEvents /\ LockCollisionRefused

\* a lock id locked, released and locked again, and held now
C24_Witness ==
    \E a \in ClientAccounts, x \in ClientTxids :
        /\ track = "effects"
        /\ InService(a)
        /\ x \in DOMAIN acct[a].reserving
        /\ effLog[a][x].locks >= 2

(***************************************************************************)
(* The two structures of the dedup window                                  *)
(***************************************************************************)
\* the places of txid in the queue
PlacesOf(p, txid) == {n \in 1..Len(p.timeseries) : p.timeseries[n][2] = txid}

\* the mapping and the queue hold the same txids, each once in the queue
SameTxids(p) ==
    /\ \A x \in DOMAIN p.txids : Cardinality(PlacesOf(p, x)) = 1
    /\ \A n \in 1..Len(p.timeseries) : p.timeseries[n][2] \in DOMAIN p.txids

\* the queue pairs every txid with the timestamp the mapping holds for it
SameTimestamps(p) ==
    \A n \in 1..Len(p.timeseries) :
        p.timeseries[n][2] \in DOMAIN p.txids =>
            p.timeseries[n][1] = p.txids[p.timeseries[n][2]]

\* C25: after every sequence of inserts and removes on the window, a txid is in the
\* mapping iff it appears exactly once in the queue, and the timestamp the queue
\* pairs with it is the first-seen timestamp the mapping holds for it.
C25_WindowConsistent == SameTxids(pt) /\ SameTimestamps(pt)

\* the txids alone: this part holds in every reachable window
WindowSameTxids == SameTxids(pt)

(***************************************************************************)
(* Two clients and one account: commands in flight at the same time,       *)
(* executed by the engine one at a time                                    *)
(***************************************************************************)
ConcurrentKinds == {"Deposit", "Withdraw", "Debit", "Credit", "LockFunds", "Settle"}
ConcurrentCommands ==
    {TxCmd(k, x, 1, NoAccount, "BTC", m) : k \in ConcurrentKinds, x \in ClientTxids, m \in ClientAmounts}

\* account_command_handler: the request of caller k arrives and waits for the engine
CallerSubmits(k, c) ==
    /\ callers[k].pc = "idle"
    /\ callers' = [callers EXCEPT ![k] = [@ EXCEPT !.pc = "waiting", !.c = c]]
    /\ UNCHANGED <<acct, order, transfer, tasks, pt, ptHist, ledger, effLog, last, init, track,
                   guards, lockLog, view, viewLog>>

\* the engine takes one of the waiting commands of the account and runs it alone:
\* load, handle, commit
EngineExecutes(k, a) ==
    /\ callers[k].pc = "waiting"
    /\ \E x \in {Execute(acct[a], callers[k].c)} :
          /\ acct' = [acct EXCEPT ![a] = x.a]
          /\ callers' = [callers EXCEPT ![k] =
                            [@ EXCEPT !.pc = "done", !.ok = x.res.ok, !.err = x.res.err,
                                      !.events = x.res.events, !.saw = acct[a], !.left = x.a,
                                      !.at = 1 + Cardinality({j \in Callers : callers[j].pc = "done"})]]
    /\ UNCHANGED <<order, transfer, tasks, pt, ptHist, ledger, effLog, last, init, track,
                   guards, lockLog, view, viewLog>>

\* account A with BTC 2, and the same with lock 0x02 on BTC 1
ConcurrentStarts ==
    {Funded("A", "BTC", 2),
     Execute(Funded("A", "BTC", 2), TxCmd("LockFunds", "0x02", 0, NoAccount, "BTC", 1)).a}

InitConcurrent ==
    /\ \E s \in ConcurrentStarts : acct = [a \in Accounts |-> IF a = "A" THEN s ELSE Uninitialized]
    /\ init = [a \in Accounts |-> acct[a].assets]
    /\ order = NoOrder
    /\ transfer = NoTransfer
    /\ tasks = <<>>
    /\ viewLog = NoEntries
    /\ view = DefaultView
    /\ guards = NoGuards
    /\ lockLog = NoLocks
    /\ callers = NoCallers
    /\ ledger = ZeroLedger
    /\ effLog = [a \in Accounts |-> NoEffects]
    /\ last = NoLast
    /\ pt = NewProcessed(DEFAULT_TTL)
    /\ ptHist = <<>>
    /\ track = "ledger"

NextConcurrent ==
    \/ \E k \in Callers, c \in ConcurrentCommands : CallerSubmits(k, c)
    \/ \E k \in Callers : EngineExecutes(k, "A")

SpecConcurrent == InitConcurrent /\ [][NextConcurrent]_vars

DuplicateErrors == {"DuplicateTransaction", "DuplicateLock"}

MaxProjected == 103
\* the transaction events that may come from any command; later ones come from
\* LockFunds and UnlockFunds of one lock id
EarlyEvents == 3

\* the clock of the client: one tick per ledger entry
ViewNow == Len(viewLog) + 1

EarlyCommands ==
    {TxCmd(k, x, ViewNow, "B", "BTC", 2) :
        k \in {"Deposit", "Withdraw", "Debit", "Credit", "ReverseDebit", "ReverseCredit"},
        x \in ClientTxids}
    \cup {[settle(OrderId, "B", "ETH", 1) EXCEPT !.timestamp = ViewNow]}

\* CqrsFramework::execute with the AccountQuery attached: the events committed are
\* dispatched to the view
Project(c) ==
    /\ Len(viewLog) < MaxProjected
    /\ \E x \in {Execute(acct["A"], c)} :
          /\ acct' = [acct EXCEPT !["A"] = x.a]
          /\ \E events \in {IF x.a.tag = "Panicked" THEN <<>> ELSE x.res.events} :
                /\ view' = ViewUpdateAll(view, events)
                /\ viewLog' = viewLog \o EntriesOf(events)
    /\ UNCHANGED <<order, transfer, tasks, pt, ptHist, ledger, effLog, last, init, track,
                   guards, lockLog, callers>>

ViewLifecycle(kind) ==
    /\ kind \in LifecycleKinds
    /\ Project(LifecycleCmd(kind, "A"))

ViewEarly(c) ==
    /\ Len(viewLog) < EarlyEvents
    /\ Project(c)

ViewLockCycle(kind) ==
    /\ kind \in {"LockFunds", "UnlockFunds"}
    /\ Project(TxCmd(kind, OrderId, ViewNow, NoAccount, "BTC", 1))

InitView ==
    /\ Idle
    /\ pt = NewProcessed(DEFAULT_TTL)
    /\ ptHist = <<>>
    /\ track = "ledger"

NextView ==
    \/ \E kind \in LifecycleKinds : ViewLifecycle(kind)
    \/ \E c \in EarlyCommands : ViewEarly(c)
    \/ \E kind \in {"LockFunds", "UnlockFunds"} : ViewLockCycle(kind)

SpecView == InitView /\ [][NextView]_vars

\* the step projects a Settled event e
ProjectsSettled(e) ==
    /\ Len(viewLog') = Len(viewLog) + 1
    /\ viewLog'[Len(viewLog')].detail = "Settlement"
    /\ e = viewLog'[Len(viewLog')]

\* C27: the projection of a Settled event takes send_amount from
\* locked_balance[send_asset], adds receive_amount to balance[receive_asset], and
\* leaves every other balance and locked balance as it was.
C27_SettledProjection ==
    [][\A e \in {viewLog'[n] : n \in {Len(viewLog')} \ {0}} :
          ProjectsSettled(e) =>
              /\ ~view'.panicked
              /\ view'.locked_balance =
                     MapPut(view.locked_balance, e.asset, MapGet(view.locked_balance, e.asset, 0) - e.amount)
              /\ view'.balance =
                     MapPut(view.balance, e.receive_asset,
                            MapGet(view.balance, e.receive_asset, 0) + e.receive_amount)]_vars

\* the newest entries projected, newest first, as many as the ledger may hold
LastProjected ==
    LET n == Len(viewLog)
        k == IF n > RECENT_LEDGER_SIZE THEN RECENT_LEDGER_SIZE ELSE n
    IN  [i \in 1..k |-> viewLog[n - i + 1]]

\* C28: after projecting any sequence of account events, recent_ledger holds at most
\* RECENT_LEDGER_SIZE entries and they are the entries of the newest transaction
\* events, one per event, newest first: every transaction event put its entry at the
\* head, and what was dropped when the bound was exceeded are the oldest entries.
C28_RecentLedger ==
    ~view.panicked =>
        /\ Len(view.recent_ledger) <= RECENT_LEDGER_SIZE
        /\ view.recent_ledger = LastProjected

\* more events projected than the ledger holds: the oldest entries are gone
C28_Witness ==
    /\ ~view.panicked
    /\ Len(viewLog) >= RECENT_LEDGER_SIZE + 2
    /\ Len(view.recent_ledger) = RECENT_LEDGER_SIZE
    /\ view.recent_ledger[1].timestamp = Len(viewLog)
    /\ view.recent_ledger[RECENT_LEDGER_SIZE].timestamp = Len(viewLog) - RECENT_LEDGER_SIZE + 1
    /\ \E i \in 1..RECENT_LEDGER_SIZE : view.recent_ledger[i].detail = "Settlement"

(***************************************************************************)
(* The Transfer state machine                                              *)
(***************************************************************************)
\* the account acknowledged the leg: Ok or DuplicateTransaction
Acknowledged(x) == x.res.ok \/ x.res.err = "DuplicateTransaction"

RefusedByTransfer(h, accts) ==
    /\ h.res = "InvalidState"
    /\ h.events = <<>>
    /\ h.accts = accts
    /\ h.spawned = <<>>

\* Open put to the Transfer t
OpenAnswered(t) ==
    \A config \in TransferConfigs :
        \E h \in {TransferHandle(t, acct, "Open", config, "none")} :
            IF t.tag = "Uninitialized"
            THEN /\ h.res = "Ok" /\ h.accts = acct /\ h.spawned = <<>>
                 /\ \E t2 \in {TransferApplyAll(t, h.events)} :
                       t2.tag = "Opened" /\ t2.config = config
            ELSE RefusedByTransfer(h, acct)

\* Continue put to the Transfer t: refused unless Opened, and Done only when the
\* Debit on `from` and then the Credit on `to` are both acknowledged
ContinueAnswered(t) ==
    \A fault \in Faults :
        \E h \in {TransferHandle(t, acct, "Continue", NoTransferConfig, fault)} :
            IF t.tag # "Opened" THEN RefusedByTransfer(h, acct)
            ELSE (\E i \in 1..Len(h.events) : h.events[i].type = "Done") =>
                    \E d \in {Call(acct, t.config.from_account,
                                   debit(t.config.transfer_id, 0, t.config.to_account,
                                         t.config.asset, t.config.amount),
                                   fault = "infra1")} :
                    \E c \in {Call(d.accts, t.config.to_account,
                                   credit(t.config.transfer_id, 0, t.config.from_account,
                                          t.config.asset, t.config.amount),
                                   fault = "infra2")} :
                        /\ Acknowledged(d) /\ Acknowledged(c)
                        /\ h.accts = c.accts
                        /\ h.events = <<TransferEvent("Done", NoTransferConfig, 0)>>
                        /\ h.spawned = <<>>

TransferAnswers ==
    /\ OpenAnswered(transfer) /\ ContinueAnswered(transfer)
    /\ \E failed \in {[transfer EXCEPT !.tag = "Failed"]} :
          OpenAnswered(failed) /\ ContinueAnswered(failed)

\* a step of a saga's engine: the last command is a saga's, and no account changes its
\* lifecycle tag, as every effective step of a client's lifecycle command does
SagaStep ==
    /\ last'.agg \in {"order", "transfer"}
    /\ \A a \in Accounts : acct'[a].tag = acct[a].tag

\* the moves of the Transfer: Opened by an Open from Uninitialized, Done by a Continue
\* from Opened, and none out of Done; a command put to a Done Transfer changes no
\* account and spawns nothing
TransferMoves ==
    /\ transfer' # transfer =>
          \/ /\ transfer.tag = "Uninitialized" /\ transfer'.tag = "Opened"
             /\ last'.agg = "transfer" /\ last'.cmd = "Open" /\ last'.res = "Ok"
             /\ acct' = acct
          \/ /\ transfer.tag = "Opened" /\ transfer'.tag = "Done"
             /\ transfer'.config = transfer.config
             /\ last'.agg = "transfer" /\ last'.cmd = "Continue" /\ last'.res = "Ok"
             /\ TransferId \in Window(Sender)' /\ TransferId \in Window(Receiver)'
    /\ (transfer.tag = "Done" /\ SagaStep /\ last'.agg = "transfer") =>
          /\ last'.res = "InvalidState" /\ last'.event = ""
          /\ acct' = acct /\ tasks' = tasks

\* C29: Open is accepted only from Uninitialized and yields Opened, otherwise it is
\* InvalidState; Continue is accepted only from Opened, otherwise it is InvalidState
\* and reaches no account; Done is emitted only when the Debit on `from` and the
\* Credit on `to` were both acknowledged with Ok or DuplicateTransaction; and no
\* command put to a Done Transfer changes the Transfer or an account.
C29_TransferMachine == []TransferAnswers /\ [][TransferMoves]_vars

\* Open has been put to a Done Transfer between two accounts and was refused; both
\* accounts carry the transfer id and the amount has moved
C29_Witness ==
    /\ transfer.tag = "Done"
    /\ Sender # Receiver
    /\ last.agg = "transfer" /\ last.cmd = "Open" /\ last.res = "InvalidState"
    /\ TransferId \in Window(Sender) /\ TransferId \in Window(Receiver)
    /\ Balance(acct[Receiver], transfer.config.asset) = transfer.config.amount

(***************************************************************************)
(* The two sagas on the same accounts: compensation                        *)
(***************************************************************************)
InitSagas == InitOrder \/ InitTransfer

NextSagas == NextOrder \/ NextTransfer

SpecSagas == InitSagas /\ [][NextSagas]_vars

\* the future a failed credit leg awaits
ReverseCreditOf(config) ==
    Undo(config.to_account,
         reverse_credit(config.transfer_id, 0, config.from_account, config.asset,
                        config.amount))

\* l is the record of a saga's Continue in which a nested account command met an
\* infrastructure error
InfraFailed(l) ==
    /\ l.agg \in {"order", "transfer"} /\ l.cmd = "Continue"
    /\ l.ae = "Infrastructure"

\* the accounts as the Debit of the Transfer leaves them
AfterDebit ==
    Call(acct, Sender,
         debit(transfer.config.transfer_id, 0, Receiver, transfer.config.asset,
               transfer.config.amount), FALSE)

\* the accounts as the seller's Settle of the Order leaves them
AfterSellerSettle ==
    Call(acct, order.config.seller,
         settle(order.config.order_id, order.buyer, order.config.buy_asset,
                order.config.buy_amount), FALSE)

\* the accounts as the legs acknowledged before the infrastructure error left them
ForwardLegs ==
    IF last'.fault = "infra1" THEN acct
    ELSE IF last'.agg = "transfer" THEN AfterDebit.accts
    ELSE AfterSellerSettle.accts

\* the account that a Continue of the Order locks funds on
Locker == IF order.tag = "Initialized" THEN order.config.seller ELSE order.buyer

LockLegFailed ==
    /\ SagaStep /\ InfraFailed(last') /\ last'.agg = "order"
    /\ order.tag \in {"Initialized", "Buying"}

PlainLegFailed ==
    /\ SagaStep /\ InfraFailed(last') /\ last'.agg = "order"
    /\ order.tag \in {"Cancelling", "Bought"}

DebitFailed ==
    /\ SagaStep /\ InfraFailed(last') /\ last'.agg = "transfer" /\ last'.fault = "infra1"

CreditFailed ==
    /\ SagaStep /\ InfraFailed(last') /\ last'.agg = "transfer" /\ last'.fault = "infra2"

TriedSettles ==
    {[c EXCEPT !.other = "B", !.receive_asset = s, !.receive_amount = c.amount] :
        c \in Tried({"Settle"}), s \in Assets}

\* an accepted Settle(X): one Settled event with the asset and amount of lock X; X is
\* in the window, lock X is gone, the other locks and every balance are as they were;
\* the same Settle again is DuplicateTransaction
SettleSucceeds(s, c, x) ==
    /\ c.txid \in DOMAIN s.reserving
    /\ Len(x.res.events) = 1
    /\ x.res.events[1].type = "Settled"
    /\ x.res.events[1].txid = c.txid
    /\ x.res.events[1].asset = s.reserving[c.txid].asset
    /\ x.res.events[1].amount = s.reserving[c.txid].amount
    /\ x.a.tag = "InService"
    /\ c.txid \in WindowOf(x.a)
    /\ DOMAIN x.a.reserving = DOMAIN s.reserving \ {c.txid}
    /\ \A y \in DOMAIN x.a.reserving : x.a.reserving[y] = s.reserving[y]
    /\ SameBalances(x.a, s)
    /\ Refused(Execute(x.a, c), x.a, "DuplicateTransaction")

\* C31 as claimed: on every reachable in-service account state, a Settle(X) that is
\* accepted emits a Settled event with the asset and amount of lock X, records X in
\* the dedup window, removes lock X and leaves every balance unchanged, and Settle(X)
\* again is DuplicateTransaction; a Settle for an id with no lock is LockNotFound.
C31_AsClaimed ==
    \A a \in ClientAccounts :
        InService(a) =>
            \A c \in TriedSettles :
                \E x \in {Execute(acct[a], c)} :
                    /\ x.res.ok => SettleSucceeds(acct[a], c, x)
                    /\ c.txid \notin DOMAIN acct[a].reserving =>
                          Refused(x, acct[a], "LockNotFound")

\* C31 as amended: the same for an accepted Settle(X), which is every Settle(X) with
\* lock X held and X outside the dedup window; a Settle for an id with no lock is
\* refused with LockNotFound when the id is outside the dedup window and with
\* DuplicateTransaction when it is inside, as is a Settle for a held lock whose id
\* is inside.
C31_Settle ==
    \A a \in ClientAccounts :
        InService(a) =>
            \A c \in TriedSettles :
                \E x \in {Execute(acct[a], c)} :
                    /\ x.res.ok => SettleSucceeds(acct[a], c, x)
                    /\ (c.txid \in DOMAIN acct[a].reserving /\ c.txid \notin Window(a))
                          => x.res.ok
                    /\ c.txid \in Window(a) =>
                          Refused(x, acct[a], "DuplicateTransaction")
                    /\ (c.txid \notin DOMAIN acct[a].reserving /\ c.txid \notin Window(a))
                          => Refused(x, acct[a], "LockNotFound")

\* an account with funds left that holds a lock whose id is outside the window, while
\* the other txid is in the window and has no lock
C31_Witness ==
    \E a \in ClientAccounts, x, y \in ClientTxids :
        /\ InService(a)
        /\ x \in DOMAIN acct[a].reserving /\ x \notin Window(a)
        /\ acct[a].reserving[x].amount > 0
        /\ Balance(acct[a], acct[a].reserving[x].asset) > 0
        /\ y \in Window(a) /\ y \notin DOMAIN acct[a].reserving
        /\ \E c \in TriedSettles : c.txid = x /\ Execute(acct[a], c).res.ok
        /\ \E c \in TriedSettles :
              c.txid = y /\ Execute(acct[a], c).res.err = "DuplicateTransaction"

(***************************************************************************)
(* Conservation of funds across the accounts                               *)
(***************************************************************************)
\* the amounts of the locks with ids in S that are in the asset
RECURSIVE LockedAmong(_, _, _)
LockedAmong(state, S, asset) ==
    IF S = {} THEN 0
    ELSE LET y == CHOOSE z \in S : TRUE
         IN  (IF state.reserving[y].asset = asset THEN state.reserving[y].amount ELSE 0)
                + LockedAmong(state, S \ {y}, asset)

\* what the locks of an account hold of an asset
Locked(state, asset) == LockedAmong(state, DOMAIN state.reserving, asset)

\* spendable balances plus locked amounts of an asset, over all accounts
TotalFunds(asset) ==
    Balance(acct["A"], asset) + Locked(acct["A"], asset)
        + Balance(acct["B"], asset) + Locked(acct["B"], asset)

\* the same total when the behaviour started (nothing is locked then)
InitialFunds(asset) == Initially("A", asset) + Initially("B", asset)

\* no saga step is under way: no compensation is waiting to run, the Transfer is not
\* between Opened and Done and the Order is not between Bought and Settled
SagasAtRest ==
    /\ tasks = <<>>
    /\ transfer.tag # "Opened"
    /\ order.tag # "Bought"
    /\ \A a \in Accounts : acct[a].tag # "Panicked"

\* C32: with no Deposit and no Withdraw made, whenever the sagas are at rest the total
\* of spendable balances plus locked amounts over all accounts is, for every asset,
\* what it was at the start: no Order command, Transfer command or compensation has
\* created or destroyed funds.
C32_Conservation ==
    SagasAtRest => \A s \in Assets : TotalFunds(s) = InitialFunds(s)

(***************************************************************************)
(* Re-sent Continue commands and late compensations                        *)
(***************************************************************************)
\* what the account has lost of the Transfer's asset since the start
NetDebited(a) == Initially(a, transfer.config.asset) - Balance(acct[a], transfer.config.asset)

\* C33: whenever a Transfer between two different accounts is Done, `from` holds the
\* amount less than at the start and `to` holds the amount more: the Debited events
\* less the DebitReversed events, and the Credited events less the CreditReversed
\* events, of the transfer id come to the amount exactly once.  (No other command
\* moves funds of these accounts.)
C33_ExactlyOnce ==
    (transfer.tag = "Done" /\ Sender # Receiver
        /\ \A a \in Accounts : acct[a].tag # "Panicked")
        => /\ NetDebited(Sender) = transfer.config.amount
           /\ NetDebited(Receiver) = 0 - transfer.config.amount

(***************************************************************************)
(* Reversals                                                               *)
(***************************************************************************)
\* the command whose effect a reversal undoes
OriginalOf(kind) == IF kind = "ReverseDebit" THEN "Debit" ELSE "Credit"

\* C34: on every reachable in-service account state, once a Deposit, Withdraw, Debit
\* or Credit has recorded txid X, a ReverseDebit (ReverseCredit) of X is accepted only
\* when it was a Debit (Credit) that recorded X, and its DebitReversed
\* (CreditReversed) event carries the asset and the amount of that Debit (Credit).
C34_ReversalMatches ==
    \A a \in ClientAccounts :
        InService(a) =>
            \A c \in Tried({"Deposit", "Withdraw", "Debit", "Credit"}) :
                \E o \in {Execute(acct[a], c)} :
                    (o.res.ok /\ o.a.tag = "InService") =>
                        \A r \in Tried({"ReverseDebit", "ReverseCredit"}) :
                            (r.txid = c.txid /\ Handle(o.a, r).ok) =>
                                /\ c.kind = OriginalOf(r.kind)
                                /\ Handle(o.a, r).events[1].asset = c.asset
                                /\ Handle(o.a, r).events[1].amount = c.amount

(***************************************************************************)
(* Eviction from the dedup window                                          *)
(***************************************************************************)
\* the step is an insert into the stand-alone window
InsertStep ==
    /\ Len(ptHist') = Len(ptHist) + 1
    /\ ptHist'[Len(ptHist')].op = "insert"

\* C35: an insert at timestamp t evicts no txid whose first-seen timestamp ts has
\* ts + TTL >= t, whatever the order of the timestamps inserted so far.
C35_NoPrematureEviction ==
    [][InsertStep =>
          \A x \in DOMAIN pt.txids :
              pt.txids[x] + pt.ttl >= ptHist'[Len(ptHist')].timestamp
                  => x \in DOMAIN pt'.txids]_vars

(***************************************************************************)
(* The view against the aggregate                                          *)
(***************************************************************************)
\* C36: after projecting the events of any accepted commands, for every asset the
\* balance of the view is the spendable balance of the aggregate (an absent entry
\* counts as 0) and the locked balance of the view is the sum of the amounts of the
\* locks the aggregate holds in that asset.
C36_FaithfulProjection ==
    (~view.panicked /\ acct["A"].tag # "Panicked") =>
        \A s \in Assets :
            /\ MapGet(view.balance, s, 0) = Balance(acct["A"], s)
            /\ MapGet(view.locked_balance, s, 0) = Locked(acct["A"], s)

(***************************************************************************)
(* Closing an account without funds                                        *)
(***************************************************************************)
\* C37: on every reachable state of an open account (in service or disabled) in which
\* every asset balance is zero and no lock is held, Close is accepted and emits
\* AccountClosed.
C37_CloseWithoutFunds ==
    \A a \in ClientAccounts :
        (/\ acct[a].tag \in {"InService", "Disabled"}
         /\ \A s \in Assets : Balance(acct[a], s) = 0
         /\ DOMAIN acct[a].reserving = {})
            => \E x \in {Execute(acct[a], LifecycleCmd("Close", a))} :
                  /\ x.res.ok
                  /\ x.res.events = <<Event("AccountClosed", LifecycleCmd("Close", a), "", 0)>>
                  /\ x.a.tag = "Closed"

(***************************************************************************)
(* The duplicate check comes before the funds check                        *)
(***************************************************************************)
\* the answer of Account::handle to a command it has answered before
DuplicateOf(c) == IF c.kind = "LockFunds" THEN "DuplicateLock" ELSE "DuplicateTransaction"

\* C38: on every reachable in-service account state, a Withdraw or Debit whose txid is
\* in the dedup window is refused with DuplicateTransaction, and a LockFunds whose lock
\* id is held with DuplicateLock, when the balance of its asset is below the amount;
\* and a Withdraw, Debit or LockFunds that was accepted is answered with the duplicate
\* error, never with InsufficientFunds, when it is sent again right after, whatever
\* balance it left.
C38_DuplicateBeforeFunds ==
    \A a \in ClientAccounts :
        InService(a) =>
            \A c \in Tried(FundsKinds) :
                \E x \in {Execute(acct[a], c)} :
                    /\ (AnsweredBefore(acct[a], c) /\ Held(acct[a], c.asset) < c.amount)
                            => Refused(x, acct[a], DuplicateOf(c))
                    /\ (x.res.ok /\ x.a.tag = "InService")
                            => Refused(Execute(x.a, c), x.a, DuplicateOf(c))

\* an account whose balance is below the amount of a Withdraw and a Debit with a txid
\* of its window and of a LockFunds with the id of a lock it holds, and a command that
\* takes the whole balance and is sent again
C38_Witness ==
    \E a \in ClientAccounts :
        /\ InService(a)
        /\ \A k \in FundsKinds :
              \E c \in Tried({k}) :
                  /\ AnsweredBefore(acct[a], c)
                  /\ Held(acct[a], c.asset) < c.amount
                  /\ Execute(acct[a], c).res.err = DuplicateOf(c)
        /\ \E c \in Tried(FundsKinds) :
              \E x \in {Execute(acct[a], c)} :
                  /\ c.amount > 0
                  /\ x.res.ok
                  /\ Held(x.a, c.asset) < c.amount
                  /\ Execute(x.a, c).res.err = DuplicateOf(c)

(***************************************************************************)
(* Disable and Enable change the lifecycle tag only                        *)
(***************************************************************************)
\* C39: on every reachable in-service account state, Disable is accepted with
\* AccountDisabled and leaves a Disabled account with the same account_id, assets,
\* locks and dedup window; Enable on that account is accepted with AccountEnabled and
\* gives back the in-service state that Disable was sent to, field by field.
C39_DisableEnable ==
    \A a \in ClientAccounts :
        InService(a) =>
            \E d \in {Execute(acct[a], LifecycleCmd("Disable", a))} :
                /\ d.res.ok
                /\ d.res.events = <<Event("AccountDisabled", LifecycleCmd("Disable", a), "", 0)>>
                /\ d.a = [acct[a] EXCEPT !.tag = "Disabled"]
                /\ \E n \in {Execute(d.a, LifecycleCmd("Enable", a))} :
                      /\ n.res.ok
                      /\ n.res.events = <<Event("AccountEnabled", LifecycleCmd("Enable", a), "", 0)>>
                      /\ n.a.tag = "InService"
                      /\ n.a.account_id = acct[a].account_id
                      /\ n.a.assets = acct[a].assets
                      /\ n.a.reserving = acct[a].reserving
                      /\ n.a.processed_transactions = acct[a].processed_transactions

\* an in-service account with a balance, a lock and a txid in its window, which
\* Disable and then Enable give back as it was
C39_Witness ==
    \E a \in ClientAccounts :
        /\ InService(a)
        /\ \E s \in Assets : Balance(acct[a], s) > 0
        /\ DOMAIN acct[a].reserving # {}
        /\ WindowOf(acct[a]) # {}
        /\ Execute(Execute(acct[a], LifecycleCmd("Disable", a)).a,
                   LifecycleCmd("Enable", a)).a = acct[a]

(***************************************************************************)
(* The view takes every event the aggregate emits                          *)
(***************************************************************************)
\* C40: the view of account A, which has projected every event A committed, has not
\* panicked, and for every transaction command (amount 0 and assets never held
\* included) that A accepts in its current state, projecting the events of the answer
\* reaches no unreachable!/panic arm and leaves every balance and locked balance of
\* the view within u64.
C40_TotalProjection ==
    /\ ~view.panicked
    /\ \A c \in Tried(TransactionKinds \cup {"LockFunds", "UnlockFunds", "Settle"}) :
          \E x \in {Execute(acct["A"], c)} :
              (x.res.ok /\ x.a.tag # "Panicked")
                  => \E w \in {ViewUpdateAll(view, x.res.events)} :
                        ~w.panicked /\ InRange(w)

====
